---- MODULE Spec2Model ----
(***************************************************************************)
(* A model of chinese-book-maker: the SVG stroke decomposition and the     *)
(* cached step-image generation (utils/process_svg.py,                     *)
(* utils/generate_stroke_step_pngs.py, generate_png.py), the word filters  *)
(* (utils/filters.py, utils/search_words.py) and the document assembly     *)
(* and typesetting (compile_pdf.py, make_latex_group.py,                   *)
(* utils/write_latex_to_pdf.py).                                           *)
(***************************************************************************)
EXTENDS Integers, Sequences, FiniteSets, TLC

(***************************************************************************)
(* Bounds of the model.                                                    *)
(***************************************************************************)
\* Longest list of <path> elements of a source SVG.
MaxPaths == 3

(***************************************************************************)
(* Program constants.                                                      *)
(***************************************************************************)
\* process_svg: a path starts a new stroke when it is more than this far away.
StrokeGap == 50

(***************************************************************************)
(* Helpers on sequences.                                                   *)
(***************************************************************************)
Range(s) == {s[k] : k \in 1..Len(s)}

SeqsUpTo(S, n) == UNION {[1..k -> S] : k \in 0..n}

Abs(a) == IF a < 0 THEN -a ELSE a

SetMax(S) == CHOOSE m \in S : \A k \in S : k <= m

(***************************************************************************)
(* Source SVGs.  A path is the value of its d attribute, seen the way      *)
(* get_path_coords reads it: kind "M" is a d whose first white-space       *)
(* separated token is M followed by two numbers (x, y); kind "rel" is a    *)
(* non-empty d whose first token is not M; kind "bad" is a d on which      *)
(* get_path_coords raises (an empty or missing d: parts[0] is an           *)
(* IndexError; an M without two numbers after it).                         *)
(***************************************************************************)
Points == {<<0, 0>>, <<50, 0>>, <<51, 0>>, <<0, 51>>}

PathDs ==
    {[kind |-> "M", x |-> p[1], y |-> p[2]] : p \in Points}
        \cup {[kind |-> "rel", x |-> 0, y |-> 0], [kind |-> "bad", x |-> 0, y |-> 0]}

\* The d of an element that carries no d attribute.
NoD == [kind |-> "none", x |-> 0, y |-> 0]

\* A source SVG: whether it has the <g transform="... scale(1, -1) ..."> group
\* that holds the strokes, and the d attributes of the <path> elements in it.
SvgFiles == [group : BOOLEAN, paths : SeqsUpTo(PathDs, MaxPaths)]

(***************************************************************************)
(* utils/process_svg.py                                                    *)
(***************************************************************************)
NoCoords == [ok |-> FALSE, x |-> 0, y |-> 0]

\* get_path_coords(d): the start point of a d that begins with an M token,
\* None otherwise.  (It raises on kind "bad": see process_svg_raises.)
get_path_coords(d) ==
    IF d.kind = "M" THEN [ok |-> TRUE, x |-> d.x, y |-> d.y] ELSE NoCoords

\* The condition under which the loop of process_svg starts a new stroke at
\* the path of 0-based index i.
starts_new_stroke(i, coords, last_end) ==
    \/ i = 0
    \/ /\ coords.ok
       /\ \/ ~last_end.ok
          \/ Abs(coords.x - last_end.x) > StrokeGap
          \/ Abs(coords.y - last_end.y) > StrokeGap

\* The loop "for i, path in enumerate(original_paths)" from the path of
\* 1-based index k on: the stroke numbers given to the paths k..Len(paths).
RECURSIVE stroke_classes(_, _, _, _)
stroke_classes(paths, k, current_stroke, last_end) ==
    IF k > Len(paths) THEN <<>>
    ELSE LET coords == get_path_coords(paths[k])
             cur    == IF starts_new_stroke(k - 1, coords, last_end)
                       THEN current_stroke + 1 ELSE current_stroke
             le     == IF coords.ok THEN coords ELSE last_end
         IN  <<cur>> \o stroke_classes(paths, k + 1, cur, le)

\* process_svg raises when get_path_coords raises on some path, or when the
\* first path has no M start: the loop then starts stroke 1 and its print
\* subscripts coords, which is None.
process_svg_raises(svg) ==
    /\ svg.group
    /\ \/ \E k \in 1..Len(svg.paths) : svg.paths[k].kind = "bad"
       \/ Len(svg.paths) > 0 /\ svg.paths[1].kind # "M"

\* The class stroke-<n> a path carries in the source file, 0 without one.
source_class(d) == IF "cls" \in DOMAIN d THEN d.cls ELSE 0

\* The gray copy of the path of index k: every attribute of the original at
\* the time of the copy (the class it has in the source file, if any), fill
\* and style set to gray.
gray_path(paths, k) ==
    [src |-> k, d |-> paths[k], paint |-> "gray", cls |-> source_class(paths[k])]

\* An original path left without the class of its stroke.
black_path_unclassed(paths, k, n) ==
    [src |-> k, d |-> paths[k], paint |-> "black", cls |-> 0]

\* The original path of index k after the loop: black, class stroke-<n>.
black_path(paths, k, n) ==
    [src |-> k, d |-> paths[k], paint |-> "black", cls |-> n]

\* The <path> elements of the soup process_svg returns, in document order: the
\* gray group, inserted before the stroke group, then the stroke group.
\* Without a stroke group the paths are left as they are (src 0..: no class).
process_svg(svg) ==
    IF ~svg.group
    THEN [k \in 1..Len(svg.paths) |->
             [src |-> k, d |-> svg.paths[k], paint |-> "asis",
              cls |-> source_class(svg.paths[k])]]
    ELSE LET cls == stroke_classes(svg.paths, 1, 0, NoCoords)
         IN  [k \in 1..Len(svg.paths) |-> gray_path(svg.paths, k)]
                 \o [k \in 1..Len(svg.paths) |-> black_path(svg.paths, k, cls[k])]

(***************************************************************************)
(* The program state.                                                      *)
(***************************************************************************)
VARIABLES
    prog,        \* the entry point that runs: "call", "script" or "cli"
    impl,        \* the generate_stroke_step_pngs in use: "utils" or "generate_png"
    word,        \* the characters the entry point works through
    svgs,        \* the source SVG file of each character
    png,         \* the step PNG files of the output directory, per character
    pc,          \* the position of the running program
    ci,          \* index into word of the character being worked on
    soup,        \* the <path> elements of the parsed SVG of that character
    max_stroke,  \* number of steps of that character
    step,        \* the loop variable i of generate_stroke_step_pngs
    rasterized,  \* the steps the rasterizer was invoked for in this run
    prev,        \* how the previous run of utils' generate_stroke_step_pngs ended
    printed,     \* the messages printed so far by the running program
    typeset,     \* the documents handed to the typesetting compiler so far
    exit_status, \* the exit status of the program, -1 while it runs
    call,        \* the last call of a function or command line of the word pipeline
    json_file,   \* the word file chinese_words_with_frequency.json
    latex_list   \* latex_entries of make_latex_group.py

vars == <<prog, impl, word, svgs, png, pc, ci, soup, max_stroke, step,
          rasterized, prev, printed, typeset, exit_status, call, json_file, latex_list>>

\* The two characters of the word of make_latex_group.py, as code points.
Bing == 20912
Xiang == 31665
Chars == {Bing, Xiang}

\* A step PNG file: absent, of size zero, or an image: the <path> elements of
\* the step SVG the rasterizer rendered.
PngAbsent == [st |-> "absent", doc |-> <<>>]
PngEmpty == [st |-> "empty", doc |-> <<>>]
PngImage(doc) == [st |-> "image", doc |-> doc]

\* The character being worked on.
hanzi_char == word[ci]

NoCall == [fn |-> "none"]

(***************************************************************************)
(* utils/generate_stroke_step_pngs.py                                      *)
(***************************************************************************)
\* The stroke numbers found in the soup: the classes stroke-<n> of its paths.
stroke_numbers(s) == {s[k].cls : k \in {j \in 1..Len(s) : s[j].cls > 0}}

\* "set(range(1, max_stroke + 1)) - stroke_numbers"
missing_strokes(s) == (1..SetMax(stroke_numbers(s))) \ stroke_numbers(s)

\* What lines 22-32 print for the soup s.
stroke_warnings(s) ==
    IF stroke_numbers(s) = {} THEN <<"Warning: No strokes found">>
    ELSE IF missing_strokes(s) # {} THEN <<"Warning: Missing stroke numbers">>
    ELSE <<>>

\* The step SVG of step i: every path of a stroke after i is removed.
step_soup(s, i, K) == SelectSeq(s, LAMBDA e : e.cls \notin (i + 1)..K)

\* A check that takes no PNG for cached.
png_never_cached(f) == FALSE

\* A check of the existence of the PNG alone, not of its size.
png_cached_unsized(f) == f.st # "absent"

\* "os.path.exists(png_out) and os.path.getsize(png_out) > 0"
png_cached(f) == f.st = "image"

\* What a failing rasterizer may leave of the file it was to write: nothing
\* (the file stays as it was), or a file of size zero.
FailedPng(f) == {f, PngEmpty}

\* A rasterizer run whose exit status is not looked at.
after_rasterizer_unchecked(ok) == "loop"

\* subprocess.run(..., check=True): the loop goes on when the rasterizer
\* exits with status 0; otherwise CalledProcessError leaves the function.
after_rasterizer(ok) == IF ok THEN "loop" ELSE "raised"

\* How a finished run of the function returns control: to its caller.
AfterGenerate == IF prog = "call" THEN "returned" ELSE "script_latex"

\* generate_stroke_step_pngs(svg_path, hanzi_char), up to the loop: the SVG
\* is parsed and processed, the stroke numbers are collected.
GenStart ==
    /\ pc = "generate"
    /\ impl = "utils"
    /\ rasterized' = {}
    /\ step' = 1
    /\ IF process_svg_raises(svgs[hanzi_char])
       THEN /\ pc' = "raised"
            /\ soup' = <<>>
            /\ max_stroke' = 0
            /\ UNCHANGED printed
       ELSE LET s == process_svg(svgs[hanzi_char])
            IN  /\ soup' = s
                /\ printed' = printed \o stroke_warnings(s)
                /\ IF stroke_numbers(s) = {}
                   THEN /\ max_stroke' = 0
                        /\ pc' = AfterGenerate
                   ELSE /\ max_stroke' = SetMax(stroke_numbers(s))
                        /\ pc' = "loop"
    /\ UNCHANGED <<prog, impl, word, svgs, png, ci, prev, typeset, exit_status, call, json_file, latex_list>>

\* One pass of the loop for a step whose PNG exists with non-zero size.
GenSkip ==
    /\ pc = "loop"
    /\ impl = "utils"
    /\ step <= max_stroke
    /\ png_cached(png[hanzi_char][step])
    /\ step' = step + 1
    /\ UNCHANGED <<prog, impl, word, svgs, png, pc, ci, soup, max_stroke,
                   rasterized, prev, printed, typeset, exit_status, call, json_file, latex_list>>

\* One pass of the loop that renders: the step SVG is written and the
\* rasterizer run on it (check=True), which succeeds or fails.
GenRender ==
    /\ pc = "loop"
    /\ impl = "utils"
    /\ step <= max_stroke
    /\ ~png_cached(png[hanzi_char][step])
    /\ rasterized' = rasterized \cup {step}
    /\ \/ /\ png' = [png EXCEPT ![hanzi_char][step] =
                        PngImage(step_soup(soup, step, max_stroke))]
          /\ step' = step + 1
          /\ pc' = after_rasterizer(TRUE)
       \/ /\ \E f \in FailedPng(png[hanzi_char][step]) :
                 png' = [png EXCEPT ![hanzi_char][step] = f]
          /\ step' = step
          /\ pc' = after_rasterizer(FALSE)
    /\ UNCHANGED <<prog, impl, word, svgs, ci, soup, max_stroke, prev,
                   printed, typeset, exit_status, call, json_file, latex_list>>

\* The loop is over: the function returns.
GenReturn ==
    /\ pc = "loop"
    /\ impl = "utils"
    /\ step > max_stroke
    /\ pc' = AfterGenerate
    /\ UNCHANGED <<prog, impl, word, svgs, png, ci, soup, max_stroke, step,
                   rasterized, prev, printed, typeset, exit_status, call, json_file, latex_list>>

(***************************************************************************)
(* generate_png.py: the other generate_stroke_step_pngs, called with       *)
(* output_dir = "output", which makes it share output/pngs.                *)
(***************************************************************************)
\* all_strokes: every <path> of the document, "path.attrs = {}" and then the
\* black style: the element keeps no other attribute, its d included.
png_all_strokes(svg) ==
    [k \in 1..Len(svg.paths) |->
        [src |-> k, d |-> NoD, paint |-> "black", cls |-> 0]]

\* gray_paths: a copy of each of them, attributes emptied again, gray style.
png_gray_paths(strokes) ==
    [k \in 1..Len(strokes) |->
        [src |-> strokes[k].src, d |-> NoD, paint |-> "gray", cls |-> 0]]

\* The step SVG of step i: the gray paths, then the first i strokes in black.
png_step_soup(strokes, i) == png_gray_paths(strokes) \o SubSeq(strokes, 1, i)

\* "os.path.exists(step_png_path)"
png_exists(f) == f.st # "absent"

PngStart ==
    /\ pc = "generate"
    /\ impl = "generate_png"
    /\ rasterized' = {}
    /\ step' = 1
    /\ soup' = png_all_strokes(svgs[hanzi_char])
    /\ max_stroke' = Len(svgs[hanzi_char].paths)
    /\ pc' = "loop"
    /\ UNCHANGED <<prog, impl, word, svgs, png, ci, prev, printed, typeset,
                   exit_status, call, json_file, latex_list>>

PngSkip ==
    /\ pc = "loop"
    /\ impl = "generate_png"
    /\ step <= max_stroke
    /\ png_exists(png[hanzi_char][step])
    /\ step' = step + 1
    /\ UNCHANGED <<prog, impl, word, svgs, png, pc, ci, soup, max_stroke,
                   rasterized, prev, printed, typeset, exit_status, call, json_file, latex_list>>

PngRender ==
    /\ pc = "loop"
    /\ impl = "generate_png"
    /\ step <= max_stroke
    /\ ~png_exists(png[hanzi_char][step])
    /\ rasterized' = rasterized \cup {step}
    /\ \/ /\ png' = [png EXCEPT ![hanzi_char][step] =
                        PngImage(png_step_soup(soup, step))]
          /\ step' = step + 1
          /\ pc' = pc
       \/ /\ \E f \in FailedPng(png[hanzi_char][step]) :
                 png' = [png EXCEPT ![hanzi_char][step] = f]
          /\ step' = step
          /\ pc' = "raised"
    /\ UNCHANGED <<prog, impl, word, svgs, ci, soup, max_stroke, prev,
                   printed, typeset, exit_status, call, json_file, latex_list>>

PngReturn ==
    /\ pc = "loop"
    /\ impl = "generate_png"
    /\ step > max_stroke
    /\ pc' = "returned"
    /\ UNCHANGED <<prog, impl, word, svgs, png, ci, soup, max_stroke, step,
                   rasterized, prev, printed, typeset, exit_status, call, json_file, latex_list>>

(***************************************************************************)
(* Calls of generate_stroke_step_pngs on one character, one after another  *)
(* (what tests/test_stroke_generation.py does for each of its characters). *)
(***************************************************************************)
\* No SVG paths at all: the file of a character the run never opens.
EmptySvg == [group |-> TRUE, paths |-> <<>>]

NoPngs == [c \in Chars |-> [i \in 1..MaxPaths |-> PngAbsent]]

\* A new call, after the previous one returned or raised.
CallGenerate ==
    /\ prog = "call"
    /\ pc \in {"idle", "returned", "raised"}
    /\ \E m \in {"utils", "generate_png"} : impl' = m
    /\ prev' = IF pc = "idle" THEN "none"
               ELSE IF impl = "utils" THEN pc ELSE "other"
    /\ pc' = "generate"
    /\ printed' = <<>>
    /\ UNCHANGED <<prog, word, svgs, png, ci, soup, max_stroke, step,
                   rasterized, typeset, exit_status, call, json_file, latex_list>>

InitStroke ==
    /\ prog = "call"
    /\ impl = "utils"
    /\ word = <<Bing>>
    /\ \E f \in SvgFiles : svgs = [c \in Chars |-> IF c = Bing THEN f ELSE EmptySvg]
    /\ png = NoPngs
    /\ pc = "idle"
    /\ ci = 1
    /\ soup = <<>>
    /\ max_stroke = 0
    /\ step = 1
    /\ rasterized = {}
    /\ prev = "none"
    /\ printed = <<>>
    /\ typeset = <<>>
    /\ exit_status = -1
    /\ call = NoCall
    /\ json_file = [st |-> "missing", words |-> <<>>]
    /\ latex_list = <<>>

NextStroke ==
    \/ CallGenerate
    \/ GenStart
    \/ GenSkip
    \/ GenRender
    \/ GenReturn
    \/ PngStart
    \/ PngSkip
    \/ PngRender
    \/ PngReturn

SpecStroke == InitStroke /\ [][NextStroke]_vars

(***************************************************************************)
(* Strings are sequences of code points: a 97, b 98, A 65, B 66, N 78,     *)
(* V 86, n 110, v 118, a-macron 257, A-macron 256, combining macron 772,   *)
(* space 32, ( 40, ) 41, . 46, / 47, ; 59.                                 *)
(***************************************************************************)
\* str.lower() and str.upper(), on the letters of the model's alphabet.
lower_char(c) == IF c \in 65..90 THEN c + 32 ELSE IF c = 256 THEN 257 ELSE c

upper_char(c) == IF c \in 97..122 THEN c - 32 ELSE IF c = 257 THEN 256 ELSE c

lower(s) == [k \in 1..Len(s) |-> lower_char(s[k])]

upper(s) == [k \in 1..Len(s) |-> upper_char(s[k])]

\* "sub in s" on strings.
Contains(sub, s) ==
    \E k \in 0..(Len(s) - Len(sub)) : SubSeq(s, k + 1, k + Len(sub)) = sub

\* s.startswith(p)
StartsWith(s, p) == Len(p) <= Len(s) /\ SubSeq(s, 1, Len(p)) = p

\* normalize_pinyin: NFD decomposition, then every combining mark (category
\* Mn) dropped: a letter with a macron becomes the bare letter.
normalize_pinyin(text) ==
    LET base(c) == IF c = 257 THEN 97 ELSE IF c = 256 THEN 65 ELSE c
    IN  SelectSeq([k \in 1..Len(text) |-> base(text[k])], LAMBDA c : c # 772)

\* str.split(): the maximal runs of non-space characters.
RECURSIVE split(_)
split(s) ==
    IF s = <<>> THEN <<>>
    ELSE IF Head(s) = 32 THEN split(Tail(s))
    ELSE LET n == CHOOSE m \in 1..Len(s) :
                      /\ \A k \in 1..m : s[k] # 32
                      /\ m = Len(s) \/ s[m + 1] = 32
         IN  <<SubSeq(s, 1, n)>> \o split(SubSeq(s, n + 1, Len(s)))

\* word.strip('.,;()[]')
StripChars == {46, 44, 59, 40, 41, 91, 93}

RECURSIVE lstrip(_)
lstrip(s) == IF s # <<>> /\ Head(s) \in StripChars THEN lstrip(Tail(s)) ELSE s

RECURSIVE rstrip(_)
rstrip(s) ==
    IF s # <<>> /\ s[Len(s)] \in StripChars
    THEN rstrip(SubSeq(s, 1, Len(s) - 1)) ELSE s

strip(s) == rstrip(lstrip(s))

(***************************************************************************)
(* utils/filters.py                                                        *)
(***************************************************************************)
filter_by_level(words, level) ==
    SelectSeq(words, LAMBDA w : w.lowest_level = level)

filter_by_grammar(words, grammar) ==
    LET g == upper(grammar)
    IN  SelectSeq(words, LAMBDA w :
            \/ upper(w.grammar) = g
            \/ upper(w.grammar) = <<40>> \o g \o <<41>>
            \/ StartsWith(upper(w.grammar), g \o <<47>>)
            \/ StartsWith(upper(w.grammar), <<40>> \o g \o <<41, 47>>))

filter_by_multiple_levels(words, min_levels) ==
    SelectSeq(words, LAMBDA w : Len(w.levels) >= min_levels)

\* appears_in_level(level) is a predicate on ONE word record.
appears_in_level(level, w) == level \in Range(w.levels)

\* filter_by_text(words, field, query, normalize)
filter_by_text(words, field, query, normalize) ==
    LET norm(t) == IF normalize /\ field = "pinyin" THEN normalize_pinyin(t) ELSE t
        q == norm(lower(query))
    IN  SelectSeq(words, LAMBDA w : Contains(q, norm(lower(w[field]))))

\* A match that looks for the query anywhere, whatever the exact flag.
matches_anywhere(translation, query, exact) == Contains(query, lower(translation))

\* matches_translation of filter_by_translation
matches_translation(translation, query, exact) ==
    LET t == lower(translation)
    IN  IF exact
        THEN query \in {strip(x) : x \in Range(split(t))}
        ELSE Contains(query, t)

filter_by_translation(words, query, exact) ==
    SelectSeq(words, LAMBDA w :
        \E k \in 1..Len(w.translations) :
            matches_translation(w.translations[k], lower(query), exact))

\* sorted(words, key=..., reverse=...) with integer keys, keys[k] the key of
\* words[k]: stable, and with reverse the words of equal key keep their
\* order too.  insert_sorted puts the index n into a sorted list of indices.
RECURSIVE insert_sorted(_, _, _, _)
insert_sorted(n, idx, keys, reverse) ==
    IF idx = <<>> THEN <<n>>
    ELSE LET last == idx[Len(idx)]
             before == IF reverse THEN keys[n] > keys[last] ELSE keys[n] < keys[last]
         IN  IF before
             THEN Append(insert_sorted(n, SubSeq(idx, 1, Len(idx) - 1), keys, reverse), last)
             ELSE Append(idx, n)

RECURSIVE sorted_indices(_, _, _)
sorted_indices(n, keys, reverse) ==
    IF n = 0 THEN <<>>
    ELSE insert_sorted(n, sorted_indices(n - 1, keys, reverse), keys, reverse)

sorted(words, keys, reverse) ==
    LET idx == sorted_indices(Len(words), keys, reverse)
    IN  [k \in 1..Len(words) |-> words[idx[k]]]

\* a < b on strings: by code point, a proper prefix first.
RECURSIVE str_less(_, _)
str_less(a, b) ==
    IF b = <<>> THEN FALSE
    ELSE IF a = <<>> THEN TRUE
    ELSE IF Head(a) # Head(b) THEN Head(a) < Head(b)
    ELSE str_less(Tail(a), Tail(b))

\* The pinyin keys compare as strings: the key of a word is taken as the
\* number of pinyin values of the list that sort strictly before its own.
sort_by_pinyin(words, reverse) ==
    sorted(words,
           [k \in 1..Len(words) |->
               Cardinality({p \in {words[j].pinyin : j \in 1..Len(words)} :
                               str_less(p, words[k].pinyin)})],
           reverse)

\* The word records carry no stroke_numbers: every key is sum((0,)) = 0.
sort_by_stroke_count(words, reverse) ==
    sorted(words, [k \in 1..Len(words) |-> 0], reverse)

\* frequency_score is <<>> for None (or a missing key), <<n>> for a number,
\* <<n, 1>> for a string that float() reads as n, <<0, 0>> for a string that
\* float() rejects.
get_frequency(w) ==
    LET freq == w.frequency_score
    IN  IF freq = <<>> THEN 0
        ELSE IF Len(freq) = 2 THEN (IF freq[2] = 1 THEN freq[1] ELSE 0)
        ELSE freq[1]

\* A sort by frequency that ignores the reverse flag.
sort_by_frequency_ascending(words, reverse) ==
    IF \A k \in 1..Len(words) : words[k].frequency_score = <<>>
    THEN sort_by_pinyin(words, FALSE)
    ELSE sorted(words, [k \in 1..Len(words) |-> get_frequency(words[k])], FALSE)

sort_by_frequency(words, reverse) ==
    IF \A k \in 1..Len(words) : words[k].frequency_score = <<>>
    THEN sort_by_pinyin(words, reverse)
    ELSE sorted(words, [k \in 1..Len(words) |-> get_frequency(words[k])], reverse)

\* An order of the levels that puts every other value after advanced.
level_order_unknown_last(level) ==
    CASE level = "foundation" -> 0
      [] level = "beginner" -> 1
      [] level = "intermediate" -> 2
      [] level = "advanced" -> 3
      [] OTHER -> 4

\* level_order.get(x.get('lowest_level', ''), -1)
level_order(level) ==
    CASE level = "foundation" -> 0
      [] level = "beginner" -> 1
      [] level = "intermediate" -> 2
      [] level = "advanced" -> 3
      [] OTHER -> -1

sort_by_level(words, reverse) ==
    sorted(words, [k \in 1..Len(words) |-> level_order(words[k].lowest_level)], reverse)

\* apply_sort(words, sort_funcs[sort], reverse)
apply_sort(words, sort, reverse) ==
    CASE sort = "pinyin" -> sort_by_pinyin(words, reverse)
      [] sort = "stroke" -> sort_by_stroke_count(words, reverse)
      [] sort = "frequency" -> sort_by_frequency(words, reverse)
      [] sort = "level" -> sort_by_level(words, reverse)

(***************************************************************************)
(* The word records and the word file chinese_words_with_frequency.json.   *)
(***************************************************************************)
\* Longest list of word records in the word file.
MaxWords == 2

\* Most command line options given in one run.
MaxOptions == 3

\* Largest --chars-per-page, and longest list of entries handed to compile_pdf.
MaxPerPage == 3
MaxEntries == 4

WordPool ==
    { [chineseword |-> <<Bing>>, pinyin |-> <<98, 257>>,
       translations |-> << <<97, 32, 98>> >>, grammar |-> <<78>>,
       lowest_level |-> "beginner", levels |-> <<"advanced", "beginner">>,
       frequency_score |-> <<3>>],
      [chineseword |-> <<Xiang>>, pinyin |-> <<98>>,
       translations |-> << <<97, 98>>, <<98>> >>, grammar |-> <<86>>,
       lowest_level |-> "advanced", levels |-> <<"advanced">>,
       frequency_score |-> <<>>],
      [chineseword |-> <<Bing, Xiang>>, pinyin |-> <<66, 97>>,
       translations |-> << <<98>> >>, grammar |-> <<40, 78, 41>>,
       lowest_level |-> "foundation", levels |-> <<"beginner", "foundation">>,
       frequency_score |-> <<1>>],
      [chineseword |-> <<Xiang, Bing>>, pinyin |-> <<257>>,
       translations |-> <<>>, grammar |-> <<78, 47, 86>>,
       lowest_level |-> "intermediate", levels |-> <<"intermediate">>,
       frequency_score |-> <<3>>] }

WordLists == SeqsUpTo(WordPool, MaxWords)

\* The word file: missing, not valid JSON, or a list of word records.
JsonFiles ==
    {[st |-> "missing", words |-> <<>>], [st |-> "invalid", words |-> <<>>]}
        \cup {[st |-> "ok", words |-> ws] : ws \in WordLists}

(***************************************************************************)
(* utils/search_words.py                                                   *)
(***************************************************************************)
\* load_words(json_path): the list of the file, or, with an error printed,
\* the empty list when the file is missing or is not valid JSON.
load_words(file) ==
    CASE file.st = "missing" ->
             [words |-> <<>>, printed |-> <<"Error: Could not find file">>]
      [] file.st = "invalid" ->
             [words |-> <<>>, printed |-> <<"Error: File is not valid JSON">>]
      [] OTHER -> [words |-> file.words, printed |-> <<>>]

\* search_words(words, query, search_type, exact)
search_words(words, query, search_type, exact) ==
    CASE search_type = "chinese" -> filter_by_text(words, "chineseword", query, FALSE)
      [] search_type = "pinyin" -> filter_by_text(words, "pinyin", query, TRUE)
      [] search_type = "grammar" -> filter_by_grammar(words, query)
      [] search_type = "level" -> filter_by_level(words, query)
      [] search_type = "translation" -> filter_by_translation(words, query, exact)
      [] OTHER -> <<>>

(***************************************************************************)
(* apply_filters.  A filter of the list is a record naming the function    *)
(* the lambda calls; kind "predicate" is what appears_in_level(level)      *)
(* returns: a function of ONE word record.                                 *)
(***************************************************************************)
NoError == "none"

\* filter_func(result), result being the list of words.  The predicate of
\* appears_in_level calls word.get on its argument, which is the list here:
\* a list has no get, an AttributeError.
call_filter(f, words) ==
    CASE f.kind = "predicate" -> [raised |-> "AttributeError", words |-> <<>>]
      [] f.kind = "text" ->
             [raised |-> NoError,
              words |-> filter_by_text(words, f.field, f.query, f.normalize)]
      [] f.kind = "translation" ->
             [raised |-> NoError,
              words |-> filter_by_translation(words, f.query, f.exact)]
      [] f.kind = "grammar" ->
             [raised |-> NoError, words |-> filter_by_grammar(words, f.query)]
      [] f.kind = "level" ->
             [raised |-> NoError, words |-> filter_by_level(words, f.level)]
      [] f.kind = "multiple_levels" ->
             [raised |-> NoError, words |-> filter_by_multiple_levels(words, f.n)]
      [] f.kind = "custom" ->
             [raised |-> NoError,
              words |-> SelectSeq(words, LAMBDA w : appears_in_level(f.level, w))]

RECURSIVE apply_filters(_, _)
apply_filters(words, filters) ==
    IF filters = <<>> THEN [raised |-> NoError, words |-> words]
    ELSE LET r == call_filter(Head(filters), words)
         IN  IF r.raised # NoError THEN r ELSE apply_filters(r.words, Tail(filters))

\* The filter list entry an option adds "if args.<option>:", none when the
\* option is not given (None) or is falsy ("", 0).
opt(given, f) == IF given THEN <<f>> ELSE <<>>

(***************************************************************************)
(* Entries, the document, the typesetting.                                 *)
(***************************************************************************)
\* '; '.join(translations)
RECURSIVE join(_)
join(ts) ==
    IF ts = <<>> THEN <<>>
    ELSE IF Len(ts) = 1 THEN ts[1]
    ELSE ts[1] \o <<59, 32>> \o join(Tail(ts))

\* "Convert to entry format": (pinyin, chineseword, translations)
to_entries(words) ==
    [k \in 1..Len(words) |->
        <<words[k].pinyin, words[k].chineseword, join(words[k].translations)>>]

\* The blocks of a document.
Preamble == [block |-> "preamble", of |-> <<>>]
PageBreak == [block |-> "pagebreak", of |-> <<>>]
EndDocument == [block |-> "end", of |-> <<>>]

\* make_latex_group(pinyin, word, translations): the markup group of an entry.
make_latex_group(pinyin, w, translations) ==
    [block |-> "group", of |-> <<pinyin, w, translations>>]

\* A page break after every chars_per_page-th entry, the last one included.
break_after_every(i, chars_per_page, n) == (i + 1) % chars_per_page = 0

\* "(i + 1) % chars_per_page == 0 and i < len(entries) - 1", i 0-based.
break_after(i, chars_per_page, n) == (i + 1) % chars_per_page = 0 /\ i < n - 1

\* The loop of compile_pdf from the entry of 1-based index k on.
RECURSIVE entry_blocks(_, _, _)
entry_blocks(entries, k, chars_per_page) ==
    IF k > Len(entries) THEN <<>>
    ELSE <<make_latex_group(entries[k][1], entries[k][2], entries[k][3])>>
             \o (IF break_after(k - 1, chars_per_page, Len(entries))
                 THEN <<PageBreak>> ELSE <<>>)
             \o entry_blocks(entries, k + 1, chars_per_page)

\* latex_entries of compile_pdf, which "\n\n".join turns into the document.
\* (With chars_per_page = 0 the loop raises: see compile_pdf.)
latex_entries(entries, chars_per_page) ==
    <<Preamble>> \o entry_blocks(entries, 1, chars_per_page) \o <<EndDocument>>

\* What the typesetting compiler does when run: it produces the PDF, it
\* exits with a failure, or it cannot be started (subprocess.run raises).
TexOutcomes == {"ok", "fails", "not_installed"}

\* write_latex_to_pdf(tex_code, output_basename): the .tex file is written,
\* the compiler run (its exit status is not looked at), the success printed.
write_latex_to_pdf(tex_code, output_basename, tex) ==
    IF tex = "not_installed"
    THEN [raised |-> "FileNotFoundError", printed |-> <<>>,
          tex_file |-> tex_code, pdf |-> FALSE]
    ELSE [raised |-> NoError, printed |-> <<"PDF generated">>,
          tex_file |-> tex_code, pdf |-> (tex = "ok")]

\* compile_pdf(entries, output_basename, chars_per_page)
compile_pdf(entries, output_basename, chars_per_page, tex) ==
    IF chars_per_page = 0 /\ entries # <<>>
    THEN [raised |-> "ZeroDivisionError", printed |-> <<>>,
          tex_file |-> <<>>, pdf |-> FALSE]
    ELSE write_latex_to_pdf(latex_entries(entries, chars_per_page), output_basename, tex)

(***************************************************************************)
(* compile_pdf.py: load_entries_from_json and the command line.            *)
(***************************************************************************)
\* An optional integer argument is <<>> (None, not given) or <<n>>; "if x:"
\* holds of it when it is given and is not 0.
truthy(x) == x # <<>> /\ x[1] # 0

\* words[:c]
slice_to(words, c) ==
    IF c >= 0 THEN SubSeq(words, 1, IF c < Len(words) THEN c ELSE Len(words))
    ELSE SubSeq(words, 1, IF Len(words) + c > 0 THEN Len(words) + c ELSE 0)

\* "if cutoff: words = words[:cutoff]"
apply_cutoff(words, cutoff) ==
    IF truthy(cutoff) THEN slice_to(words, cutoff[1]) ELSE words

\* load_entries_from_json(json_path, cutoff, level_filter, grammar_filter,
\* min_levels, custom_filter); custom is the level of an appears_in_level
\* predicate given as custom_filter, "" for None.
load_entries_from_json(file, cutoff, level_filter, grammar_filter, min_levels, custom) ==
    IF file.st = "missing" THEN [raised |-> "FileNotFoundError", entries |-> <<>>]
    ELSE IF file.st = "invalid" THEN [raised |-> "JSONDecodeError", entries |-> <<>>]
    ELSE LET filters ==
                 opt(level_filter # "", [kind |-> "level", level |-> level_filter])
                 \o opt(grammar_filter # <<>>, [kind |-> "grammar", query |-> grammar_filter])
                 \o opt(truthy(min_levels), [kind |-> "multiple_levels", n |-> min_levels[1]])
                 \o opt(custom # "", [kind |-> "custom", level |-> custom])
             r == IF filters # <<>> THEN apply_filters(file.words, filters)
                  ELSE [raised |-> NoError, words |-> file.words]
         IN  [raised |-> r.raised, entries |-> to_entries(apply_cutoff(r.words, cutoff))]

\* The options of the two command lines.  A string option not given is the
\* empty string (both are falsy, and the code only tests "if args.<option>:").
DefaultArgs ==
    [pinyin |-> <<>>, character |-> <<>>, translation |-> <<>>, exact |-> FALSE,
     grammar |-> <<>>, level |-> "", appears_in |-> "", min_levels |-> <<>>,
     cutoff |-> <<>>, sort |-> "", reverse |-> FALSE, count |-> FALSE,
     chars_per_page |-> 4]

AllArgs ==
    [pinyin : {<<>>, <<97>>}, character : {<<>>, <<Bing>>},
     translation : {<<>>, <<65>>}, exact : BOOLEAN,
     grammar : {<<>>, <<110>>}, level : {"", "beginner"},
     appears_in : {"", "beginner"}, min_levels : {<<>>, <<0>>, <<2>>},
     cutoff : {<<>>, <<0>>, <<1>>, <<-1>>},
     sort : {"", "pinyin", "stroke", "frequency", "level"},
     reverse : BOOLEAN, count : BOOLEAN, chars_per_page : {4} \cup 0..MaxPerPage]

OptionNames == DOMAIN DefaultArgs

\* The options given with a value that is not their default.
given(args) == {o \in OptionNames : args[o] # DefaultArgs[o]}

Args == {a \in AllArgs : Cardinality(given(a)) <= MaxOptions}

\* generate_default_filename(args): the parts of the name, in order.
generate_default_filename(args) ==
    opt(args.pinyin # <<>>, <<"pinyin", args.pinyin>>)
    \o opt(args.character # <<>>, <<"character", args.character>>)
    \o opt(args.translation # <<>>, <<"translation", args.translation>>)
    \o opt(args.grammar # <<>>, <<"grammar", args.grammar>>)
    \o opt(args.level # "", <<"level", args.level>>)
    \o opt(args.appears_in # "", <<"appears_in", args.appears_in>>)
    \o opt(truthy(args.min_levels), <<"min_levels", args.min_levels>>)
    \o opt(args.exact, <<"exact">>)

\* The result of a run of a command line.
Ran(fn, args, status, raised, msgs, words, out) ==
    [fn |-> fn, args |-> args, exit |-> status, raised |-> raised,
     printed |-> msgs, words |-> words, entries |-> to_entries(words),
     tex_file |-> out.tex_file, pdf |-> out.pdf]

NoOutput == [tex_file |-> <<>>, pdf |-> FALSE]

\* "Apply search filters": an if / elif chain over the five search options.
search_filters(words, args) ==
    IF args.pinyin # <<>> THEN search_words(words, args.pinyin, "pinyin", args.exact)
    ELSE IF args.character # <<>>
         THEN search_words(words, args.character, "chinese", args.exact)
    ELSE IF args.translation # <<>>
         THEN search_words(words, args.translation, "translation", args.exact)
    ELSE IF args.grammar # <<>>
         THEN search_words(words, args.grammar, "grammar", args.exact)
    ELSE IF args.level # "" THEN search_words(words, args.level, "level", args.exact)
    ELSE words

\* "Apply additional filters"
additional_filters(words, args) ==
    LET filters ==
            opt(args.appears_in # "", [kind |-> "predicate", level |-> args.appears_in])
            \o opt(truthy(args.min_levels),
                   [kind |-> "multiple_levels", n |-> args.min_levels[1]])
    IN  IF filters # <<>> THEN apply_filters(words, filters)
        ELSE [raised |-> NoError, words |-> words]

\* The command line of compile_pdf.py from the parsing of the arguments on
\* (what its "if __name__ == '__main__':" block does).
compile_pdf_main(args, file, tex) ==
    LET fn == "compile_pdf_main"
        loaded == load_words(file)
        filtered == additional_filters(search_filters(loaded.words, args), args)
        cut == apply_cutoff(filtered.words, args.cutoff)
        final == IF args.sort # "" THEN apply_sort(cut, args.sort, args.reverse) ELSE cut
        stats == IF args.count THEN <<"statistics">> ELSE <<>>
        output_name == <<generate_default_filename(args),
                         IF truthy(args.cutoff) THEN <<Len(final)>> ELSE <<>> >>
        out == compile_pdf(to_entries(final), output_name, args.chars_per_page, tex)
    IN  IF file.st = "missing"
        THEN Ran(fn, args, 1, NoError, <<"Error: File not found">>, <<>>, NoOutput)
        ELSE IF loaded.words = <<>>
        THEN Ran(fn, args, 1, NoError, <<"Loading words">> \o loaded.printed, <<>>, NoOutput)
        ELSE IF filtered.raised # NoError
        THEN Ran(fn, args, 1, filtered.raised, <<"Loading words">>, <<>>, NoOutput)
        ELSE IF args.count /\ final = <<>>
        THEN Ran(fn, args, 0, NoError, <<"Loading words">> \o stats, final, NoOutput)
        ELSE IF out.raised # NoError
        THEN Ran(fn, args, 1, out.raised,
                 <<"Loading words">> \o stats \o <<"Processing words">>, final, out)
        ELSE Ran(fn, args, 0, NoError,
                 <<"Loading words">> \o stats \o <<"Processing words">>
                     \o out.printed \o <<"PDF generated: output_name.pdf">>,
                 final, out)

\* main() of utils/search_words.py.
search_words_main(args, file) ==
    LET fn == "search_words_main"
        loaded == load_words(file)
        filters ==
            opt(args.pinyin # <<>>,
                [kind |-> "text", field |-> "pinyin", query |-> args.pinyin,
                 normalize |-> ~args.exact])
            \o opt(args.character # <<>>,
                   [kind |-> "text", field |-> "chineseword",
                    query |-> args.character, normalize |-> FALSE])
            \o opt(args.translation # <<>>,
                   [kind |-> "translation", query |-> args.translation,
                    exact |-> args.exact])
            \o opt(args.grammar # <<>>, [kind |-> "grammar", query |-> args.grammar])
            \o opt(args.level # "", [kind |-> "level", level |-> args.level])
            \o opt(args.appears_in # "", [kind |-> "predicate", level |-> args.appears_in])
            \o opt(truthy(args.min_levels),
                   [kind |-> "multiple_levels", n |-> args.min_levels[1]])
        filtered == IF filters # <<>> THEN apply_filters(loaded.words, filters)
                    ELSE [raised |-> NoError, words |-> loaded.words]
        final == IF args.sort # "" THEN apply_sort(filtered.words, args.sort, args.reverse)
                 ELSE filtered.words
    IN  IF loaded.words = <<>>
        THEN Ran(fn, args, 0, NoError, loaded.printed, <<>>, NoOutput)
        ELSE IF filtered.raised # NoError
        THEN Ran(fn, args, 1, filtered.raised, <<>>, <<>>, NoOutput)
        ELSE IF final = <<>>
        THEN Ran(fn, args, 0, NoError, <<"No words found">>, final, NoOutput)
        ELSE IF args.count
        THEN Ran(fn, args, 0, NoError, <<"statistics">>, final, NoOutput)
        ELSE Ran(fn, args, 0, NoError, <<"Found matching words", "Results saved">>,
                 final, NoOutput)

(***************************************************************************)
(* The functions and the command lines of the word pipeline, each run on a *)
(* word file.  They keep no state: a behaviour is one call.                *)
(***************************************************************************)
strokeVars == <<prog, impl, word, svgs, png, pc, ci, soup, max_stroke, step,
                rasterized, prev, printed, typeset, exit_status, latex_list>>

InitWords ==
    /\ prog = "call"
    /\ impl = "utils"
    /\ word = <<>>
    /\ svgs = [c \in Chars |-> EmptySvg]
    /\ png = NoPngs
    /\ pc = "idle"
    /\ ci = 1
    /\ soup = <<>>
    /\ max_stroke = 0
    /\ step = 1
    /\ rasterized = {}
    /\ prev = "none"
    /\ printed = <<>>
    /\ typeset = <<>>
    /\ exit_status = -1
    /\ call = NoCall
    /\ json_file \in JsonFiles
    /\ latex_list = <<>>

\* python compile_pdf.py <options>, from the parsing of the options on.
CompilePdfMain ==
    /\ call = NoCall
    /\ \E args \in Args, tex \in TexOutcomes :
           call' = compile_pdf_main(args, json_file, tex) @@ [tex |-> tex]
    /\ UNCHANGED <<strokeVars, json_file>>

\* python utils/search_words.py <options>
SearchWordsMain ==
    /\ call = NoCall
    /\ \E args \in Args :
           /\ args.cutoff = <<>>
           /\ args.chars_per_page = DefaultArgs.chars_per_page
           /\ call' = search_words_main(args, json_file) @@ [tex |-> "ok"]
    /\ UNCHANGED <<strokeVars, json_file>>

NextMain == CompilePdfMain \/ SearchWordsMain

SpecMain == InitWords /\ [][NextMain]_vars

\* The entries handed to compile_pdf.
EntryPool == {to_entries(<<w>>)[1] : w \in WordPool}

EntryLists == SeqsUpTo(EntryPool, MaxEntries)

LoadWords ==
    /\ call = NoCall
    /\ call' = [fn |-> "load_words", raised |-> NoError] @@ load_words(json_file)
    /\ UNCHANGED <<strokeVars, json_file>>

LoadEntriesFromJson ==
    /\ call = NoCall
    /\ \E cutoff \in {<<>>, <<0>>, <<1>>, <<2>>, <<-1>>},
          level_filter \in {"", "beginner"},
          grammar_filter \in {<<>>, <<110>>},
          min_levels \in {<<>>, <<0>>, <<2>>},
          custom \in {"", "beginner"} :
           call' = [fn |-> "load_entries_from_json", cutoff |-> cutoff,
                    level_filter |-> level_filter, grammar_filter |-> grammar_filter,
                    min_levels |-> min_levels, custom |-> custom]
                       @@ load_entries_from_json(json_file, cutoff, level_filter,
                                                 grammar_filter, min_levels, custom)
    /\ UNCHANGED <<strokeVars, json_file>>

\* (The word file plays no part in a call of compile_pdf or write_latex_to_pdf:
\* they are called where there is none.)
CompilePdf ==
    /\ call = NoCall
    /\ json_file.st = "missing"
    /\ \E entries \in EntryLists, chars_per_page \in 0..MaxPerPage, tex \in TexOutcomes :
           call' = [fn |-> "compile_pdf", entries |-> entries,
                    chars_per_page |-> chars_per_page, tex |-> tex]
                       @@ compile_pdf(entries, <<"chinese_strokes">>, chars_per_page, tex)
    /\ UNCHANGED <<strokeVars, json_file>>

WriteLatexToPdf ==
    /\ call = NoCall
    /\ json_file.st = "missing"
    /\ \E entries \in EntryLists, tex \in TexOutcomes :
           /\ Len(entries) <= 1
           /\ call' = [fn |-> "write_latex_to_pdf", tex |-> tex]
                          @@ write_latex_to_pdf(latex_entries(entries, 4),
                                                <<"chinese_strokes">>, tex)
    /\ UNCHANGED <<strokeVars, json_file>>

NextPdf == LoadWords \/ LoadEntriesFromJson \/ CompilePdf \/ WriteLatexToPdf

SpecPdf == InitWords /\ [][NextPdf]_vars

(***************************************************************************)
(* The programs: "python make_latex_group.py" and "python compile_pdf.py". *)
(* make_latex_group.py is a script: it defines no function, its body runs  *)
(* when Python executes the file and when Python imports it.  Line 5 of    *)
(* compile_pdf.py, "from make_latex_group import make_latex_group", thus  *)
(* runs that body and then fails, for the module has no such name.         *)
(***************************************************************************)
\* strokes_per_line of generate_latex_stroke_sequence.
StrokesPerLine == 8

\* The end of "range(1, 30)": the steps that are looked for are 1..29.
CountLimit == 30

\* total_strokes: the steps 1, 2, ... whose PNG exists (os.path.exists), up
\* to the first one that does not, and to step 29 at most.
total_strokes(files) ==
    Cardinality({i \in 1..Len(files) :
                    i < CountLimit /\ \A j \in 1..i : files[j].st # "absent"})

\* The markup of the lines of images from line `line` (0-based) on.
RECURSIVE stroke_lines(_, _, _)
stroke_lines(line, num_lines, total) ==
    IF line >= num_lines THEN <<>>
    ELSE LET start_stroke == line * StrokesPerLine + 1
             m == (line + 1) * StrokesPerLine
             end_stroke == IF m < total THEN m ELSE total
         IN  <<[t |-> "begin", i |-> 0]>>
                 \o [j \in 1..(end_stroke - start_stroke + 1) |->
                        [t |-> "node", i |-> start_stroke + j - 1]]
                 \o <<[t |-> "end", i |-> 0]>>
                 \o (IF line < num_lines - 1 THEN <<[t |-> "space", i |-> 0]>> ELSE <<>>)
                 \o stroke_lines(line + 1, num_lines, total)

\* The sequence with the number of lines rounded down.
latex_stroke_sequence_rounded_down(files) ==
    LET total == total_strokes(files)
    IN  stroke_lines(0, total \div StrokesPerLine, total) \o <<[t |-> "vspace", i |-> 0]>>

\* generate_latex_stroke_sequence(char_label), given the step PNGs of it.
generate_latex_stroke_sequence(files) ==
    LET total == total_strokes(files)
        num_lines == (total + StrokesPerLine - 1) \div StrokesPerLine
    IN  stroke_lines(0, num_lines, total) \o <<[t |-> "vspace", i |-> 0]>>

\* full_latex of make_latex_group.py: its own preamble, the sections, the end.
ScriptPreamble == [block |-> "script_preamble", of |-> <<>>]

full_latex(sections) ==
    <<ScriptPreamble>>
        \o [k \in 1..Len(sections) |-> [block |-> "section", of |-> sections[k]]]
        \o <<EndDocument>>

\* The source SVGs of the two characters in the runs of the programs.
CliSvgs ==
    {f \in SvgFiles :
        /\ f.group
        /\ Len(f.paths) <= 2
        /\ \A k \in 1..Len(f.paths) :
               \/ f.paths[k].kind = "bad"
               \/ f.paths[k].kind = "M" /\ f.paths[k].y = 0 /\ f.paths[k].x \in {0, 51}}

\* The step PNGs an earlier run left of a character.
earlier_run(svg) ==
    IF process_svg_raises(svg) THEN [i \in 1..MaxPaths |-> PngAbsent]
    ELSE LET s == process_svg(svg)
             K == SetMax({0} \cup stroke_numbers(s))
         IN  [i \in 1..MaxPaths |->
                 IF i <= K THEN PngImage(step_soup(s, i, K)) ELSE PngAbsent]

InitCli ==
    /\ prog \in {"script", "cli"}
    /\ impl = "utils"
    /\ word = <<Bing, Xiang>>
    /\ svgs \in [Chars -> CliSvgs]
    /\ \E cached \in BOOLEAN :
           png = [c \in Chars |-> IF cached /\ c = Bing
                                  THEN earlier_run(svgs[c]) ELSE NoPngs[c]]
    /\ pc = "start"
    /\ ci = 1
    /\ soup = <<>>
    /\ max_stroke = 0
    /\ step = 1
    /\ rasterized = {}
    /\ prev = "none"
    /\ printed = <<>>
    /\ typeset = <<>>
    /\ exit_status = -1
    /\ call = NoCall
    /\ json_file \in {f \in JsonFiles : Len(f.words) <= 1}
    /\ latex_list = <<>>

\* The interpreter starts.  For compile_pdf.py the first statement with an
\* effect is the import of line 5; either way the body of make_latex_group.py
\* begins: the first character of the word is taken.
ScriptStart ==
    /\ pc = "start"
    /\ pc' = "generate"
    /\ ci' = 1
    /\ latex_list' = <<>>
    /\ UNCHANGED <<prog, impl, word, svgs, png, soup, max_stroke, step, rasterized,
                   prev, printed, typeset, exit_status, call, json_file>>

\* Lines 29-31 of the loop, and the step to the next character or out of it.
ScriptLatex ==
    /\ pc = "script_latex"
    /\ latex_list' = Append(latex_list,
                            <<hanzi_char, generate_latex_stroke_sequence(png[hanzi_char])>>)
    /\ IF ci < Len(word)
       THEN ci' = ci + 1 /\ pc' = "generate"
       ELSE ci' = ci /\ pc' = "script_typeset"
    /\ UNCHANGED <<prog, impl, word, svgs, png, soup, max_stroke, step, rasterized,
                   prev, printed, typeset, exit_status, call, json_file>>

\* Line 45: the script's document is handed to write_latex_to_pdf.
ScriptTypeset ==
    /\ pc = "script_typeset"
    /\ \E tex \in TexOutcomes :
           LET r == write_latex_to_pdf(full_latex(latex_list),
                                       "bingxiang_strokes_colored", tex)
           IN  /\ typeset' = Append(typeset, [basename |-> "bingxiang_strokes_colored",
                                              tex_code |-> r.tex_file])
               /\ printed' = printed \o r.printed
               /\ pc' = IF r.raised = NoError THEN "imported" ELSE "raised"
    /\ UNCHANGED <<prog, impl, word, svgs, png, ci, soup, max_stroke, step, rasterized,
                   prev, exit_status, call, json_file, latex_list>>

\* python make_latex_group.py: the end of the file is the end of the program.
ScriptExit ==
    /\ prog = "script"
    /\ pc = "imported"
    /\ pc' = "exited"
    /\ exit_status' = 0
    /\ UNCHANGED <<prog, impl, word, svgs, png, ci, soup, max_stroke, step, rasterized,
                   prev, printed, typeset, call, json_file, latex_list>>

\* compile_pdf.py line 5, the module body done: the name make_latex_group is
\* looked up in the module, which does not define it: ImportError.
ImportName ==
    /\ prog = "cli"
    /\ pc = "imported"
    /\ pc' = "raised"
    /\ UNCHANGED <<prog, impl, word, svgs, png, ci, soup, max_stroke, step, rasterized,
                   prev, printed, typeset, exit_status, call, json_file, latex_list>>

\* An exception nothing catches ends the program with status 1.
Uncaught ==
    /\ prog \in {"script", "cli"}
    /\ pc = "raised"
    /\ pc' = "exited"
    /\ exit_status' = 1
    /\ UNCHANGED <<prog, impl, word, svgs, png, ci, soup, max_stroke, step, rasterized,
                   prev, printed, typeset, call, json_file, latex_list>>

NextCli ==
    \/ ScriptStart
    \/ GenStart
    \/ GenSkip
    \/ GenRender
    \/ GenReturn
    \/ ScriptLatex
    \/ ScriptTypeset
    \/ ScriptExit
    \/ ImportName
    \/ Uncaught

SpecCli == InitCli /\ [][NextCli]_vars

(***************************************************************************)
(* utils/get_translation.py: lookup in the CC-CEDICT dictionary.           *)
(***************************************************************************)
\* Most entries of the dictionary.
MaxDictEntries == 3

Zhong == 20013
GuoTraditional == 22283
GuoSimplified == 22269

\* Entries of the dictionary: the traditional and the simplified form of a
\* word (never empty) and the list of its definitions.
DictEntryPool ==
    { [traditional |-> <<Zhong>>, simplified |-> <<Zhong>>,
       definitions |-> <<"within", "among">>],
      [traditional |-> <<Zhong>>, simplified |-> <<Zhong>>,
       definitions |-> <<"to hit (the mark)">>],
      [traditional |-> <<GuoTraditional>>, simplified |-> <<GuoSimplified>>,
       definitions |-> <<"country">>],
      [traditional |-> <<Zhong, GuoTraditional>>, simplified |-> <<Zhong, GuoSimplified>>,
       definitions |-> <<"China", "country">>] }

\* cedict.get_entries(): the entries in dictionary order.
Dictionaries == SeqsUpTo(DictEntryPool, MaxDictEntries)

\* The words looked up: the empty string, words of the dictionary in either
\* form, a character that is in no dictionary.
LookupWords ==
    {<<>>, <<Zhong>>, <<GuoTraditional>>, <<GuoSimplified>>,
     <<Zhong, GuoSimplified>>, <<9786>>}

\* A lookup that matches a form of the traditional spelling only.
matching_traditional(entries, w) ==
    SelectSeq(entries, LAMBDA entry : entry.traditional = w)

\* "entry for entry in entries if entry['traditional'] == word or
\* entry['simplified'] == word"
matching_entries(entries, w) ==
    SelectSeq(entries, LAMBDA entry : entry.traditional = w \/ entry.simplified = w)

\* all_definitions: the definitions of the matching entries, extended in turn.
RECURSIVE all_definitions(_)
all_definitions(matching) ==
    IF matching = <<>> THEN <<>>
    ELSE Head(matching).definitions \o all_definitions(Tail(matching))

\* A handler that lets the exception through.
lookup_reraise(e) ==
    [raised |-> e, result |-> <<>>, printed |-> <<>>]

\* "except Exception as e": the error is printed, the empty list returned.
lookup_except(e) ==
    [raised |-> NoError, result |-> <<>>, printed |-> <<"Error looking up word">>]

\* lookup(word), with the dictionary it reads and whether reading it works.
lookup(w, entries, access) ==
    IF access = "fails"
    THEN lookup_except("Exception")
    ELSE [raised |-> NoError, printed |-> <<>>,
          result |-> all_definitions(matching_entries(entries, w))]

\* The state before a call of a function of utils: no word file is involved.
InitUtils ==
    /\ InitWords
    /\ json_file.st = "missing"

Lookup ==
    /\ call = NoCall
    /\ \E w \in LookupWords, entries \in Dictionaries, access \in {"ok", "fails"} :
           call' = [fn |-> "lookup", word |-> w, entries |-> entries,
                    access |-> access] @@ lookup(w, entries, access)
    /\ UNCHANGED <<strokeVars, json_file>>

NextLookup == Lookup

SpecLookup == InitUtils /\ [][NextLookup]_vars

(***************************************************************************)
(* Calls of the filters and sorts of utils/filters.py on lists of word     *)
(* records.                                                                *)
(***************************************************************************)
\* Longest list of records sorted.
MaxSortWords == 3

\* Translations: "Big", "(big) a", "bigger".
TranslationPool ==
    {<<66, 105, 103>>, <<40, 98, 105, 103, 41, 32, 97>>, <<98, 105, 103, 103, 101, 114>>}

\* Queries: "big", "BIG", "a", "", "(big)".
TranslationQueries ==
    {<<98, 105, 103>>, <<66, 73, 71>>, <<97>>, <<>>, <<40, 98, 105, 103, 41>>}

\* Word records as far as filter_by_translation reads them: with no
\* translation, with one, with two.
TranslatedWords ==
    {[chineseword |-> <<Bing>>, translations |-> ts] :
        ts \in {t \in SeqsUpTo(TranslationPool, Cardinality(TranslationPool) - 1) :
                    \A i, j \in 1..Len(t) : i < j => t[i] # t[j]}}

\* Word records whose lowest_level is missing or is no level, and whose
\* frequency_score is None, a string of a number, a string of no number.
SortPool ==
    WordPool \cup
    { [chineseword |-> <<Zhong>>, pinyin |-> <<97>>,
       translations |-> <<>>, grammar |-> <<78>>,
       lowest_level |-> "", levels |-> <<>>,
       frequency_score |-> <<>>],
      [chineseword |-> <<GuoTraditional>>, pinyin |-> <<99>>,
       translations |-> <<>>, grammar |-> <<78>>,
       lowest_level |-> "expert", levels |-> <<"expert">>,
       frequency_score |-> <<2, 1>>],
      [chineseword |-> <<GuoSimplified>>, pinyin |-> <<100>>,
       translations |-> <<>>, grammar |-> <<78>>,
       lowest_level |-> "foundation", levels |-> <<"foundation">>,
       frequency_score |-> <<0, 0>>] }

FilterByTranslation ==
    /\ call = NoCall
    /\ \E words \in SeqsUpTo(TranslatedWords, MaxWords),
          query \in TranslationQueries, exact \in BOOLEAN :
           call' = [fn |-> "filter_by_translation", words |-> words, query |-> query,
                    exact |-> exact, result |-> filter_by_translation(words, query, exact)]
    /\ UNCHANGED <<strokeVars, json_file>>

SortByFrequency ==
    /\ call = NoCall
    /\ \E words \in SeqsUpTo(SortPool, MaxSortWords), reverse \in BOOLEAN :
           call' = [fn |-> "sort_by_frequency", words |-> words, reverse |-> reverse,
                    result |-> sort_by_frequency(words, reverse)]
    /\ UNCHANGED <<strokeVars, json_file>>

SortByLevel ==
    /\ call = NoCall
    /\ \E words \in SeqsUpTo(SortPool, MaxSortWords), reverse \in BOOLEAN :
           call' = [fn |-> "sort_by_level", words |-> words, reverse |-> reverse,
                    result |-> sort_by_level(words, reverse)]
    /\ UNCHANGED <<strokeVars, json_file>>

NextFilters == FilterByTranslation \/ SortByFrequency \/ SortByLevel

SpecFilters == InitUtils /\ [][NextFilters]_vars

(***************************************************************************)
(* utils/extract_tocfl_words.py: extract_chinese_words.                    *)
(***************************************************************************)
\* Most rows (after the two that "df.iloc[2:]" leaves out of each sheet) in
\* the whole workbook.
MaxRows == 3

\* level_ranking (lower index = lower level); a sheet is named by the level
\* that level_mapping gives its name.
level_ranking == <<"foundation", "beginner", "intermediate", "advanced">>

level_index(level) == CHOOSE k \in 1..Len(level_ranking) : level_ranking[k] = level

\* A cell without a value (pd.isna).
NaN == <<-1>>

\* The rows of the workbook: the sheet a row is in and its cells.  The same
\* word occurs with and without a leading space, and with different pinyin
\* and grammar.
RowCells ==
    { [word |-> <<Bing>>, pinyin |-> <<98, 49>>, grammar |-> <<78>>],
      [word |-> <<32, Bing>>, pinyin |-> <<98, 50, 32>>, grammar |-> <<86>>],
      [word |-> <<Xiang>>, pinyin |-> NaN, grammar |-> <<78>>] }

\* The sheets that have rows after the first two; the sheet of the
\* intermediate level has none.
RowSheets == {"foundation", "beginner", "advanced"}

Rows == {[sheet |-> l] @@ c : l \in RowSheets, c \in RowCells}

\* A workbook: its rows, those of one sheet in the order of the sheet.
Workbooks == SeqsUpTo(Rows, MaxRows)

\* The orders the sheets are named in: every order of the four sheets.
SheetOrders ==
    {o \in [1..Len(level_ranking) -> Range(level_ranking)] :
        \A i, j \in 1..Len(level_ranking) : i # j => o[i] # o[j]}

\* str.strip(): without the spaces at either end.
RECURSIVE strip_spaces(_)
strip_spaces(t) ==
    IF t # <<>> /\ Head(t) = 32 THEN strip_spaces(Tail(t))
    ELSE IF t # <<>> /\ t[Len(t)] = 32 THEN strip_spaces(SubSeq(t, 1, Len(t) - 1))
    ELSE t

\* "str(row[...]).strip() if not pd.isna(row[...]) else ''"
cell_text(c) == IF c = NaN THEN <<>> ELSE strip_spaces(c)

\* "any('一' <= char <= '鿿' for char in word)"
has_chinese(t) == \E k \in 1..Len(t) : t[k] \in 19968..40959

\* A comparison that finds no level lower than another.
level_never_lower(a, b) == FALSE

\* "level_ranking.index(current_level) < level_ranking.index(lowest_level)"
level_lower(a, b) == level_index(a) < level_index(b)

\* The position of the word in word_dict (a dict, in insertion order), 0 if
\* it is not a key.
dict_position(word_dict, w) ==
    IF \E k \in 1..Len(word_dict) : word_dict[k].chineseword = w
    THEN CHOOSE k \in 1..Len(word_dict) : word_dict[k].chineseword = w
    ELSE 0

\* The body of the loop over the rows, for one row of the sheet of
\* current_level (lines 49-75).
process_row(word_dict, row, current_level) ==
    IF row.word = NaN THEN word_dict
    ELSE LET w == strip_spaces(row.word)
         IN  IF ~has_chinese(w) THEN word_dict
             ELSE LET d1 == IF dict_position(word_dict, w) = 0
                            THEN Append(word_dict,
                                        [chineseword |-> w,
                                         pinyin |-> cell_text(row.pinyin),
                                         grammar |-> cell_text(row.grammar),
                                         levels |-> <<>>,
                                         lowest_level |-> current_level])
                            ELSE word_dict
                      p == dict_position(d1, w)
                      d2 == IF current_level \notin Range(d1[p].levels)
                            THEN [d1 EXCEPT ![p].levels = Append(@, current_level)]
                            ELSE d1
                  IN  IF level_lower(current_level, d2[p].lowest_level)
                      THEN [d2 EXCEPT ![p].lowest_level = current_level,
                                      ![p].pinyin = cell_text(row.pinyin),
                                      ![p].grammar = cell_text(row.grammar)]
                      ELSE d2

RECURSIVE process_rows(_, _, _)
process_rows(word_dict, rows, current_level) ==
    IF rows = <<>> THEN word_dict
    ELSE process_rows(process_row(word_dict, Head(rows), current_level),
                      Tail(rows), current_level)

\* pd.read_excel(excel_path, sheet_name=...): the rows of one sheet.
read_excel(workbook, sheet_name) ==
    SelectSeq(workbook, LAMBDA r : r.sheet = sheet_name)

\* "for sheet_name in reversed(sheet_names)", from the k-th name down.
RECURSIVE process_sheets(_, _, _, _)
process_sheets(word_dict, workbook, sheet_names, k) ==
    IF k = 0 THEN word_dict
    ELSE process_sheets(process_rows(word_dict, read_excel(workbook, sheet_names[k]),
                                     sheet_names[k]),
                        workbook, sheet_names, k - 1)

\* extract_chinese_words(excel_path, sheet_names): list(word_dict.values())
extract_chinese_words(workbook, sheet_names) ==
    process_sheets(<<>>, workbook, sheet_names, Len(sheet_names))

ExtractChineseWords ==
    /\ call = NoCall
    /\ \E workbook \in Workbooks, sheet_names \in SheetOrders :
           call' = [fn |-> "extract_chinese_words", workbook |-> workbook,
                    sheet_names |-> sheet_names,
                    result |-> extract_chinese_words(workbook, sheet_names)]
    /\ UNCHANGED <<strokeVars, json_file>>

NextExtract == ExtractChineseWords

SpecExtract == InitUtils /\ [][NextExtract]_vars

(***************************************************************************)
(* utils/process_svg.py called on SVGs whose paths are known with the      *)
(* point at which they end (ex, ey), next to the point of their M.  A      *)
(* closed path ends where it starts; process_svg reads only the start.     *)
(***************************************************************************)
EndPoints == {<<0, 0>>, <<100, 0>>}

EndedPathDs ==
    {[kind |-> "M", x |-> p[1], y |-> p[2], ex |-> e[1], ey |-> e[2]] :
        p \in Points, e \in EndPoints}
        \cup {[kind |-> "rel", x |-> 0, y |-> 0, ex |-> e[1], ey |-> e[2]] : e \in EndPoints}
        \cup {[kind |-> "bad", x |-> 0, y |-> 0, ex |-> 0, ey |-> 0]}

\* A path that carries a class stroke-3 of its own in the source file.
ClassedPathDs == {[kind |-> "M", x |-> 0, y |-> 0, ex |-> 0, ey |-> 0, cls |-> 3]}

EndedSvgFiles ==
    [group : BOOLEAN, paths : SeqsUpTo(EndedPathDs \cup ClassedPathDs, MaxPaths)]

ProcessSvg ==
    /\ call = NoCall
    /\ \E svg \in EndedSvgFiles :
           call' = [fn |-> "process_svg", svg |-> svg,
                    raises |-> process_svg_raises(svg),
                    soup |-> IF process_svg_raises(svg) THEN <<>> ELSE process_svg(svg)]
    /\ UNCHANGED <<strokeVars, json_file>>

\* generate_stroke_step_pngs up to its loop (lines 8-32): the soup, the
\* stroke numbers found in it and what is printed about them.
FindStrokeNumbers ==
    /\ call = NoCall
    /\ \E svg \in EndedSvgFiles :
           LET s == IF process_svg_raises(svg) THEN <<>> ELSE process_svg(svg)
           IN  call' = [fn |-> "generate_stroke_step_pngs", svg |-> svg,
                        raises |-> process_svg_raises(svg),
                        soup |-> s,
                        stroke_numbers |-> stroke_numbers(s),
                        printed |-> IF process_svg_raises(svg) THEN <<>>
                                    ELSE stroke_warnings(s)]
    /\ UNCHANGED <<strokeVars, json_file>>

NextSvg == ProcessSvg \/ FindStrokeNumbers

SpecSvg == InitUtils /\ [][NextSvg]_vars

(***************************************************************************)
(* One pass of the loop of make_latex_group.py (lines 23-31) for a         *)
(* character of up to MaxStrokes strokes: generate_stroke_step_pngs with a *)
(* rasterizer that succeeds, then generate_latex_stroke_sequence on the    *)
(* directory as it is then.  The directory is shared with generate_png.py  *)
(* and keeps what earlier runs left in it.                                 *)
(***************************************************************************)
\* Most strokes of a character, and most step PNGs earlier runs left of it.
MaxStrokes == 30

\* The step PNGs of a character of which the steps 1..n exist.
StepFiles(n) ==
    [i \in 1..MaxStrokes |-> IF i <= n THEN PngImage(<<>>) ELSE PngAbsent]

\* The loop of generate_stroke_step_pngs (lines 35-63) for max_stroke = K,
\* every run of the rasterizer a success: each step that is not cached is
\* written, no other file is touched.
generate_steps(files, K) ==
    [i \in 1..Len(files) |->
        IF i <= K /\ ~png_cached(files[i]) THEN PngImage(<<>>) ELSE files[i]]

GenerateSteps ==
    /\ call = NoCall
    /\ \E K \in 0..MaxStrokes, earlier \in 0..MaxStrokes :
           call' = [fn |-> "generate_stroke_step_pngs_loop", K |-> K,
                    before |-> StepFiles(earlier),
                    files |-> generate_steps(StepFiles(earlier), K)]
    /\ UNCHANGED <<strokeVars, json_file>>

GenerateLatexStrokeSequence ==
    /\ call.fn = "generate_stroke_step_pngs_loop"
    /\ call' = [fn |-> "generate_latex_stroke_sequence", K |-> call.K,
                before |-> call.before, files |-> call.files,
                steps |-> generate_latex_stroke_sequence(call.files)]
    /\ UNCHANGED <<strokeVars, json_file>>

NextSequence == GenerateSteps \/ GenerateLatexStrokeSequence

SpecSequence == InitUtils /\ [][NextSequence]_vars

(***************************************************************************)
(* utils/get_hanzi_stroke_svgs.py, and the way its callers read the names. *)
(* A character is its code point (ord and chr); a name is a string.        *)
(***************************************************************************)
\* Longest word.
MaxChars == 3

\* Characters: NUL, a digit, the hyphen, the two of the script's word, the
\* last code point.
CharPool == {0, 55, 45, Bing, Xiang, 1114111}

HanziWords == SeqsUpTo(CharPool, MaxChars)

\* f"{n}" for n >= 0: the decimal digits of n, as characters.
RECURSIVE format_ord(_)
format_ord(n) ==
    IF n < 10 THEN <<48 + n>> ELSE format_ord(n \div 10) \o <<48 + (n % 10)>>

\* "-still.svg"
StillSvg == <<45, 115, 116, 105, 108, 108, 46, 115, 118, 103>>

\* The names of one name per distinct character of the word.
get_hanzi_stroke_svgs_of_set(w) ==
    LET cs == Range(w)
        RECURSIVE names(_)
        names(S) == IF S = {} THEN <<>>
                    ELSE LET c == CHOOSE x \in S : \A y \in S : x <= y
                         IN  <<format_ord(c) \o StillSvg>> \o names(S \ {c})
    IN  names(cs)

\* get_hanzi_stroke_svgs(word)
get_hanzi_stroke_svgs(w) == [k \in 1..Len(w) |-> format_ord(w[k]) \o StillSvg]

\* name.split(sep)[0]: the text before the first sep, all of it without one.
first_of_split(name, sep) ==
    IF \E k \in 1..Len(name) : name[k] = sep
    THEN SubSeq(name, 1, (CHOOSE k \in 1..Len(name) :
                              name[k] = sep /\ \A j \in 1..(k - 1) : name[j] # sep) - 1)
    ELSE name

\* int(text) for a text of decimal digits; -1 stands for the ValueError on
\* an empty text and on any other character.
RECURSIVE int_of(_)
int_of(text) ==
    IF text = <<>> \/ \E k \in 1..Len(text) : text[k] \notin 48..57 THEN -1
    ELSE IF Len(text) = 1 THEN text[1] - 48
    ELSE int_of(SubSeq(text, 1, Len(text) - 1)) * 10 + (text[Len(text)] - 48)

\* chr(int(svg_file.split('-')[0])), the character the callers take from a
\* name.
decode_name(name) == int_of(first_of_split(name, 45))

GetHanziStrokeSvgs ==
    /\ call = NoCall
    /\ \E w \in HanziWords :
           call' = [fn |-> "get_hanzi_stroke_svgs", word |-> w,
                    result |-> get_hanzi_stroke_svgs(w)]
    /\ UNCHANGED <<strokeVars, json_file>>

NextNames == GetHanziStrokeSvgs

SpecNames == InitUtils /\ [][NextNames]_vars

(***************************************************************************)
(* Properties of the step images.                                          *)
(***************************************************************************)
\* The stroke number of the source path k in the running implementation: the
\* class process_svg gave it (utils), its position (generate_png.py).
StrokeNo(k) ==
    IF impl = "utils"
    THEN SetMax({0} \cup {soup[j].cls : j \in {n \in 1..Len(soup) :
                                 soup[n].src = k /\ soup[n].paint = "black"}})
    ELSE k

\* doc shows the character of source paths `paths` at step i: every path in
\* gray, behind the black ones; the paths of the strokes 1..i in black; no
\* black path of a later stroke.
ShowsStep(paths, doc, i) ==
    /\ \A k \in 1..Len(paths) : \E j \in 1..Len(doc) :
           doc[j].paint = "gray" /\ doc[j].src = k /\ doc[j].d = paths[k]
    /\ \A k \in 1..Len(paths) : StrokeNo(k) \in 1..i =>
           \E j \in 1..Len(doc) :
               doc[j].paint = "black" /\ doc[j].src = k /\ doc[j].d = paths[k]
    /\ \A j \in 1..Len(doc) : doc[j].paint = "black" => StrokeNo(doc[j].src) \in 1..i
    /\ \A j, n \in 1..Len(doc) :
           doc[j].paint = "gray" /\ doc[n].paint = "black" => j < n

\* The step PNG of step i of character c is written in this step.
Written(c, i) == png'[c][i] # png[c][i] /\ png'[c][i].st = "image"

\* C1 (as claimed, for both generate_stroke_step_pngs): every step image
\* written shows all strokes in gray, the strokes 1..i in black and no later
\* stroke in black (here for an SVG that has the stroke group).
C1_StepImageShowsStrokes ==
    [][\A c \in Chars, i \in 1..MaxPaths :
           Written(c, i) /\ svgs[c].group => ShowsStep(svgs[c].paths, png'[c][i].doc, i)]_vars

\* C1 for utils/generate_stroke_step_pngs.py alone, where it holds.
C1_UtilsStepImageShowsStrokes ==
    [][\A c \in Chars, i \in 1..MaxPaths :
           Written(c, i) /\ impl = "utils" =>
               ShowsStep(svgs[c].paths, png'[c][i].doc, i)]_vars

\* A step image of a later step than the first was written by utils' function.
C1_Witness ==
    /\ impl = "utils"
    /\ pc = "loop"
    /\ step = 3
    /\ 2 \in rasterized
    /\ png[hanzi_char][2].st = "image"
    /\ Len(png[hanzi_char][2].doc) > 3

\* C3: no step whose PNG exists with non-zero size is rasterized or rewritten,
\* and a run that follows a complete run at once rasterizes nothing and
\* leaves every step PNG as it is.
C3_CachedStepsAreNotRendered ==
    [][/\ \A c \in Chars, i \in 1..MaxPaths :
              png[c][i].st = "image" => png'[c][i] = png[c][i]
       /\ impl = "utils" /\ pc = "loop" =>
              \A i \in rasterized' \ rasterized : png[hanzi_char][i].st # "image"
       /\ impl = "utils" /\ prev = "returned" /\ pc \in {"generate", "loop"} =>
              rasterized' = {} /\ png' = png]_vars

\* A second run right after a complete run of a character of two steps or
\* more has returned, having rendered nothing.
C3_Witness ==
    /\ impl = "utils"
    /\ prev = "returned"
    /\ pc = "returned"
    /\ max_stroke >= 2
    /\ rasterized = {}
    /\ \A i \in 1..max_stroke : png[hanzi_char][i].st = "image"

\* C4: after a run of utils' generate_stroke_step_pngs that returned, the
\* character has as many step PNGs as its source SVG has stroke paths (here
\* for an SVG with a stroke group whose paths all start with an M move, no
\* two at the same point).
C4_OneStepPerStrokePath ==
    (/\ impl = "utils"
     /\ pc = "returned"
     /\ svgs[hanzi_char].group
     /\ \A k \in 1..Len(svgs[hanzi_char].paths) : svgs[hanzi_char].paths[k].kind = "M"
     /\ \A k, j \in 1..Len(svgs[hanzi_char].paths) :
            k # j => svgs[hanzi_char].paths[k] # svgs[hanzi_char].paths[j])
    => Cardinality({i \in 1..MaxPaths : png[hanzi_char][i].st = "image"})
           = Len(svgs[hanzi_char].paths)

(***************************************************************************)
(* Properties of the typesetting, the filters and the document.            *)
(***************************************************************************)
\* C2: when the typesetting compiler exits with a failure, write_latex_to_pdf
\* (called directly or by compile_pdf) does not print that the PDF was generated.
C2_NoSuccessReportOnFailure ==
    (call.fn \in {"write_latex_to_pdf", "compile_pdf"} /\ call.tex = "fails")
        => "PDF generated" \notin Range(call.printed)

\* The words of the list that satisfy every search and level criterion of
\* args (but --appears-in), as the filters of utils/filters.py define them.
satisfying_all(words, args) ==
    LET a == IF args.pinyin # <<>>
             THEN filter_by_text(words, "pinyin", args.pinyin, TRUE) ELSE words
        b == IF args.character # <<>>
             THEN filter_by_text(a, "chineseword", args.character, FALSE) ELSE a
        c == IF args.translation # <<>>
             THEN filter_by_translation(b, args.translation, args.exact) ELSE b
        d == IF args.grammar # <<>> THEN filter_by_grammar(c, args.grammar) ELSE c
        e == IF args.level # "" THEN filter_by_level(d, args.level) ELSE d
    IN  IF args.min_levels # <<>>
        THEN filter_by_multiple_levels(e, args.min_levels[1]) ELSE e

\* C5: the entries compile_pdf's command line compiles are the loaded words
\* that satisfy all the filter options given (here for runs without
\* --appears-in, --cutoff and --sort).
C5_EveryGivenFilterIsApplied ==
    (/\ call.fn = "compile_pdf_main"
     /\ json_file.st = "ok"
     /\ json_file.words # <<>>
     /\ call.args.appears_in = ""
     /\ call.args.cutoff = <<>>
     /\ call.args.sort = ""
     /\ call.args.chars_per_page >= 1)
    => call.words = satisfying_all(json_file.words, call.args)

\* C6: with --appears-in L as the only option, either command line ends with
\* the words whose levels contain L, in the order of the word file.
C6_AppearsInKeepsWordsOfLevel ==
    (/\ call.fn \in {"compile_pdf_main", "search_words_main"}
     /\ json_file.st = "ok"
     /\ json_file.words # <<>>
     /\ given(call.args) = {"appears_in"})
    => /\ call.raised = NoError
       /\ call.words = SelectSeq(json_file.words,
                                 LAMBDA w : call.args.appears_in \in Range(w.levels))

\* C7: a cutoff c >= 0 that is not None makes load_entries_from_json return
\* at most c entries: the first c words of the file (no filter given here).
C7_CutoffIsTheMaximum ==
    (/\ call.fn = "load_entries_from_json"
     /\ call.raised = NoError
     /\ call.cutoff # <<>>
     /\ call.level_filter = "" /\ call.grammar_filter = <<>>
     /\ call.min_levels = <<>> /\ call.custom = "")
    => (call.cutoff[1] >= 0 =>
           /\ Len(call.entries) <= call.cutoff[1]
           /\ call.entries = to_entries(SubSeq(json_file.words, 1, Len(call.entries))))

\* The numbers of groups on the pages of a document: the runs of groups that
\* the page breaks separate.
RECURSIVE page_sizes(_, _)
page_sizes(doc, count) ==
    IF doc = <<>> THEN <<count>>
    ELSE IF Head(doc).block = "pagebreak" THEN <<count>> \o page_sizes(Tail(doc), 0)
    ELSE IF Head(doc).block = "group" THEN page_sizes(Tail(doc), count + 1)
    ELSE page_sizes(Tail(doc), count)

\* The position in doc of its k-th group.
group_position(doc, k) ==
    CHOOSE j \in 1..Len(doc) :
        /\ doc[j].block = "group"
        /\ Cardinality({n \in 1..j : doc[n].block = "group"}) = k

\* C8: for chars_per_page >= 1 and n entries, a page break follows the k-th
\* entry exactly when k is a multiple of chars_per_page and k < n; no page
\* holds more than chars_per_page entries, every page but the last holds
\* exactly chars_per_page, no page break follows the last entry.
C8_PageBreaks ==
    (/\ call.fn = "compile_pdf"
     /\ call.chars_per_page >= 1)
    => LET doc == call.tex_file
           n == Len(call.entries)
           cpp == call.chars_per_page
           sizes == page_sizes(doc, 0)
       IN  /\ Cardinality({j \in 1..Len(doc) : doc[j].block = "group"}) = n
           /\ \A k \in 1..n :
                  doc[group_position(doc, k) + 1].block = "pagebreak"
                      <=> (k % cpp = 0 /\ k < n)
           /\ \A p \in 1..Len(sizes) : sizes[p] <= cpp
           /\ \A p \in 1..(Len(sizes) - 1) : sizes[p] = cpp
           /\ doc[Len(doc) - 1].block # "pagebreak"
           /\ \A j \in 1..(Len(doc) - 1) :
                  doc[j].block = "pagebreak" => doc[j + 1].block = "group"

\* compile_pdf laid four entries out two to a page.
C8_Witness ==
    /\ call.fn = "compile_pdf"
    /\ Len(call.entries) = 4
    /\ call.chars_per_page = 2
    /\ Cardinality({j \in 1..Len(call.tex_file) : call.tex_file[j].block = "pagebreak"}) = 1

(***************************************************************************)
(* Properties of the program compile_pdf.py.                               *)
(***************************************************************************)
\* C9: what a run of compile_pdf.py (default options, loadable word file)
\* hands to write_latex_to_pdf is, once, the document of compile_pdf: the
\* preamble, one group per entry in the order of the entries, the end marker.
C9_DocumentOfEntriesHandedOverOnce ==
    (/\ prog = "cli"
     /\ pc = "exited"
     /\ json_file.st = "ok"
     /\ json_file.words # <<>>
     /\ typeset # <<>>)
    => /\ Len(typeset) = 1
       /\ typeset[1].tex_code =
              latex_entries(to_entries(json_file.words), DefaultArgs.chars_per_page)

\* C10: with a word file that is missing or not valid JSON, compile_pdf.py
\* exits with status 1, and no image was rendered and no document typeset.
C10_ExitsBeforeRenderingAndTypesetting ==
    (/\ prog = "cli"
     /\ pc = "exited"
     /\ json_file.st \in {"missing", "invalid"})
    => /\ exit_status = 1
       /\ rasterized = {}
       /\ typeset = <<>>

(***************************************************************************)
(* Properties of lookup.                                                   *)
(***************************************************************************)
\* The definitions of the entries k.. of the dictionary whose traditional or
\* simplified form is the word, each entry taken once.
RECURSIVE DefinitionsFrom(_, _, _)
DefinitionsFrom(entries, w, k) ==
    IF k > Len(entries) THEN <<>>
    ELSE (IF w \in {entries[k].traditional, entries[k].simplified}
          THEN entries[k].definitions ELSE <<>>)
             \o DefinitionsFrom(entries, w, k + 1)

\* C11: lookup(word) returns the definitions of all entries whose traditional
\* or simplified form equals word, concatenated in dictionary order, each
\* entry's definitions once; every element of the result is a string (a
\* definition of the dictionary).
C11_LookupReturnsDefinitionsOfMatches ==
    (call.fn = "lookup" /\ call.access = "ok")
    => /\ call.result = DefinitionsFrom(call.entries, call.word, 1)
       /\ \A i \in 1..Len(call.result) :
              \E e \in DictEntryPool : call.result[i] \in Range(e.definitions)

\* A word written differently in the two forms was looked up by its
\* simplified form in a dictionary with another entry before its own.
C11_Witness ==
    /\ call.fn = "lookup"
    /\ call.access = "ok"
    /\ call.word = <<GuoSimplified>>
    /\ Len(call.entries) >= 2
    /\ call.entries[1].traditional = <<Zhong>>
    /\ call.result = <<"country">>

\* C12: lookup returns the empty list and does not raise for the empty
\* string, for a word that matches no entry, and when the dictionary access
\* fails.
C12_LookupReturnsEmptyAndNeverRaises ==
    (/\ call.fn = "lookup"
     /\ \/ call.word = <<>>
        \/ \A k \in 1..Len(call.entries) :
               call.word \notin {call.entries[k].traditional, call.entries[k].simplified}
        \/ call.access = "fails")
    => call.raised = NoError /\ call.result = <<>>

\* The dictionary access failed in a lookup of a word the dictionary holds.
C12_Witness ==
    /\ call.fn = "lookup"
    /\ call.access = "fails"
    /\ call.word = <<Zhong>>
    /\ \E k \in 1..Len(call.entries) : call.entries[k].traditional = <<Zhong>>
    /\ call.result = <<>>
    /\ call.raised = NoError

(***************************************************************************)
(* Properties of the filters and sorts.                                    *)
(***************************************************************************)
\* q occurs in t as a substring.
IsSubstring(q, t) ==
    \E i \in 1..(Len(t) + 1) :
        i + Len(q) - 1 <= Len(t) /\ SubSeq(t, i, i + Len(q) - 1) = q

\* The whitespace-separated words of t: its maximal runs without a space.
WordsOf(t) ==
    {SubSeq(t, i, j) : <<i, j>> \in
        {p \in (1..Len(t)) \X (1..Len(t)) :
            /\ p[1] <= p[2]
            /\ \A k \in p[1]..p[2] : t[k] # 32
            /\ p[1] = 1 \/ t[p[1] - 1] = 32
            /\ p[2] = Len(t) \/ t[p[2] + 1] = 32}}

\* x without the characters . , ; ( ) [ ] that surround it.
Stripped(x) ==
    LET keep == {k \in 1..Len(x) : x[k] \notin {46, 44, 59, 40, 41, 91, 93}}
    IN  IF keep = {} THEN <<>>
        ELSE SubSeq(x, CHOOSE a \in keep : \A k \in keep : a <= k,
                       CHOOSE b \in keep : \A k \in keep : b >= k)

\* Lower case of the letters A-Z.
LowerCased(t) == [k \in 1..Len(t) |-> IF t[k] \in 65..90 THEN t[k] + 32 ELSE t[k]]

\* C13 (amended): with exact=True a word record is returned iff the
\* lower-cased query equals some whitespace-separated word, with surrounding
\* . , ; ( ) [ ] stripped, of one of its lower-cased translations; with
\* exact=False iff the lower-cased query is a substring of one of its
\* lower-cased translations.  The records returned keep their order.
C13_TranslationMatch ==
    call.fn = "filter_by_translation"
    => call.result =
           SelectSeq(call.words, LAMBDA w :
               \E k \in 1..Len(w.translations) :
                   IF call.exact
                   THEN LowerCased(call.query) \in
                            {Stripped(x) : x \in WordsOf(LowerCased(w.translations[k]))}
                   ELSE IsSubstring(LowerCased(call.query),
                                    LowerCased(w.translations[k])))

\* C13 as stated: with exact=True the lower-cased query is compared with the
\* stripped words of the translations as they are written.
C13_TranslationMatchAsStated ==
    call.fn = "filter_by_translation"
    => call.result =
           SelectSeq(call.words, LAMBDA w :
               \E k \in 1..Len(w.translations) :
                   IF call.exact
                   THEN LowerCased(call.query) \in
                            {Stripped(x) : x \in WordsOf(w.translations[k])}
                   ELSE IsSubstring(LowerCased(call.query),
                                    LowerCased(w.translations[k])))

\* An exact search for "big" kept a record for the word "(big)" of a
\* translation and dropped a record that only has "bigger".
C13_Witness ==
    /\ call.fn = "filter_by_translation"
    /\ call.exact
    /\ call.query = <<98, 105, 103>>
    /\ Len(call.words) = 2
    /\ call.words[1].translations = << <<98, 105, 103, 103, 101, 114>> >>
    /\ call.words[2].translations = << <<40, 98, 105, 103, 41, 32, 97>> >>
    /\ call.result = <<call.words[2]>>

\* b holds the records of a, each as often as a does.
IsPermutation(a, b) ==
    /\ Len(a) = Len(b)
    /\ \A w \in Range(a) \cup Range(b) :
           Cardinality({k \in 1..Len(a) : a[k] = w})
               = Cardinality({k \in 1..Len(b) : b[k] = w})

\* The frequency score of a word record as a number: 0 when it has none.
FrequencyOf(w) ==
    CASE Len(w.frequency_score) = 1 -> w.frequency_score[1]
      [] Len(w.frequency_score) = 2 /\ w.frequency_score[2] = 1 -> w.frequency_score[1]
      [] OTHER -> 0

\* C14: sort_by_frequency returns the words in non-decreasing order of
\* frequency score (non-increasing with reverse=True); when no word has
\* frequency data it returns what sort_by_pinyin gives for the same flag.
C14_SortByFrequency ==
    call.fn = "sort_by_frequency"
    => /\ IsPermutation(call.words, call.result)
       /\ IF \A k \in 1..Len(call.words) : call.words[k].frequency_score = <<>>
          THEN call.result = sort_by_pinyin(call.words, call.reverse)
          ELSE \A k \in 1..(Len(call.result) - 1) :
                   IF call.reverse
                   THEN FrequencyOf(call.result[k]) >= FrequencyOf(call.result[k + 1])
                   ELSE FrequencyOf(call.result[k]) <= FrequencyOf(call.result[k + 1])

\* Three words of three different scores, given in rising order, were sorted
\* in reverse.
C14_Witness ==
    /\ call.fn = "sort_by_frequency"
    /\ call.reverse
    /\ Len(call.words) = 3
    /\ FrequencyOf(call.words[1]) < FrequencyOf(call.words[2])
    /\ FrequencyOf(call.words[2]) < FrequencyOf(call.words[3])
    /\ call.result = <<call.words[3], call.words[2], call.words[1]>>

\* The rank of a lowest level: foundation < beginner < intermediate <
\* advanced, and below them a level that is missing or is none of the four.
LevelRank(w) ==
    CASE w.lowest_level = "foundation" -> 1
      [] w.lowest_level = "beginner" -> 2
      [] w.lowest_level = "intermediate" -> 3
      [] w.lowest_level = "advanced" -> 4
      [] OTHER -> 0

\* C15: sort_by_level orders the words by lowest level, foundation < beginner
\* < intermediate < advanced (the other way round with reverse=True); a word
\* whose lowest_level is missing or none of the four comes before every
\* foundation word in the forward order.
C15_SortByLevel ==
    call.fn = "sort_by_level"
    => /\ IsPermutation(call.words, call.result)
       /\ \A k \in 1..(Len(call.result) - 1) :
              IF call.reverse
              THEN LevelRank(call.result[k]) >= LevelRank(call.result[k + 1])
              ELSE LevelRank(call.result[k]) <= LevelRank(call.result[k + 1])
       /\ ~call.reverse =>
              \A i, j \in 1..Len(call.result) :
                  (/\ call.result[i].lowest_level
                          \notin {"foundation", "beginner", "intermediate", "advanced"}
                   /\ call.result[j].lowest_level = "foundation") => i < j

\* A forward sort moved a word without a level from the end of the list to
\* the front of a foundation word.
C15_Witness ==
    /\ call.fn = "sort_by_level"
    /\ ~call.reverse
    /\ Len(call.words) = 3
    /\ call.words[1].lowest_level = "foundation"
    /\ call.words[2].lowest_level = "advanced"
    /\ call.words[3].lowest_level = ""
    /\ call.result = <<call.words[3], call.words[1], call.words[2]>>

(***************************************************************************)
(* Properties of extract_chinese_words.                                    *)
(***************************************************************************)
\* The word of a row: its cell without the spaces around it.
WordOfRow(r) ==
    LET keep == {k \in 1..Len(r.word) : r.word[k] # 32}
    IN  IF keep = {} THEN <<>>
        ELSE SubSeq(r.word, CHOOSE a \in keep : \A k \in keep : a <= k,
                            CHOOSE b \in keep : \A k \in keep : b >= k)

\* The text of a cell of a row: empty without a value, else without the
\* spaces at its end.
TextOfCell(c) ==
    IF c = <<-1>> THEN <<>>
    ELSE LET keep == {k \in 1..Len(c) : c[k] # 32}
         IN  IF keep = {} THEN <<>>
             ELSE SubSeq(c, CHOOSE a \in keep : \A k \in keep : a <= k,
                            CHOOSE b \in keep : \A k \in keep : b >= k)

\* The levels in which the word w occurs in the workbook.
LevelsOf(workbook, w) ==
    {workbook[k].sheet : k \in {n \in 1..Len(workbook) : WordOfRow(workbook[n]) = w}}

\* foundation < beginner < intermediate < advanced
RankOfLevel(l) ==
    CASE l = "foundation" -> 1
      [] l = "beginner" -> 2
      [] l = "intermediate" -> 3
      [] l = "advanced" -> 4

\* C16: whatever the order of the sheets, each distinct word appears exactly
\* once in the result of extract_chinese_words, its levels hold each level in
\* which it occurs exactly once, its lowest_level is the lowest of them and a
\* member of levels, and its pinyin and grammar are those of an occurrence in
\* that lowest level.
C16_UniqueWordsWithLowestLevel ==
    call.fn = "extract_chinese_words"
    => LET B == call.workbook
           R == call.result
           ws == {WordOfRow(B[k]) : k \in 1..Len(B)}
       IN  /\ \A w \in ws : Cardinality({k \in 1..Len(R) : R[k].chineseword = w}) = 1
           /\ \A k \in 1..Len(R) :
                  /\ R[k].chineseword \in ws
                  /\ Range(R[k].levels) = LevelsOf(B, R[k].chineseword)
                  /\ Len(R[k].levels) = Cardinality(Range(R[k].levels))
                  /\ R[k].lowest_level \in Range(R[k].levels)
                  /\ \A l \in Range(R[k].levels) :
                         RankOfLevel(R[k].lowest_level) <= RankOfLevel(l)
                  /\ \E n \in 1..Len(B) :
                         /\ WordOfRow(B[n]) = R[k].chineseword
                         /\ B[n].sheet = R[k].lowest_level
                         /\ TextOfCell(B[n].pinyin) = R[k].pinyin
                         /\ TextOfCell(B[n].grammar) = R[k].grammar

\* A word of the foundation and the beginner sheet, with different pinyin,
\* was extracted with the sheets named lowest level first (the usual order
\* is highest first), next to a second word.
C16_Witness ==
    /\ call.fn = "extract_chinese_words"
    /\ call.sheet_names = <<"foundation", "beginner", "intermediate", "advanced">>
    /\ Len(call.workbook) = 3
    /\ Len(call.result) = 2
    /\ \E k \in 1..2 :
           /\ call.result[k].chineseword = <<Bing>>
           /\ call.result[k].lowest_level = "foundation"
           /\ call.result[k].levels = <<"beginner", "foundation">>
           /\ call.result[k].pinyin = <<98, 49>>
    /\ \E n \in 1..3 : call.workbook[n].sheet = "beginner" /\ call.workbook[n].pinyin = <<98, 50, 32>>

(***************************************************************************)
(* Properties of process_svg.                                              *)
(***************************************************************************)
\* The stroke number process_svg gave to the k-th path of the stroke group:
\* the class of the k-th black path of the soup (after the gray copies).
ClassOfPath(s, k) == s[Len(s) \div 2 + k].cls

\* More than 50 apart in x or in y.
FarApart(x1, y1, x2, y2) ==
    \/ (IF x1 >= x2 THEN x1 - x2 ELSE x2 - x1) > 50
    \/ (IF y1 >= y2 THEN y1 - y2 ELSE y2 - y1) > 50

\* C17: process_svg starts a new stroke at a path exactly when the path is
\* the first one, or its data begins with M and its start point is more than
\* 50 away, in x or in y, from the point where the preceding path ended;
\* every other path joins the current stroke.
C17_NewStrokeFarFromPrecedingEnd ==
    (call.fn = "process_svg" /\ call.svg.group /\ ~call.raises)
    => \A k \in 1..Len(call.svg.paths) :
           LET p == call.svg.paths
               new == k = 1 \/ ClassOfPath(call.soup, k) # ClassOfPath(call.soup, k - 1)
           IN  /\ new <=> \/ k = 1
                          \/ /\ p[k].kind = "M"
                             /\ FarApart(p[k].x, p[k].y, p[k - 1].ex, p[k - 1].ey)
               /\ ~new => ClassOfPath(call.soup, k) = ClassOfPath(call.soup, k - 1)

\* The paths of the stroke group carry classes stroke-n that start at 1, do
\* not decrease in path order and grow by at most 1 from a path to the next.
ClassesCountUp(s, n) ==
    /\ \A k \in 1..n : ClassOfPath(s, k) >= 1
    /\ n >= 1 => ClassOfPath(s, 1) = 1
    /\ \A k \in 2..n : ClassOfPath(s, k) - ClassOfPath(s, k - 1) \in {0, 1}

\* The classes found in the soup are exactly 1..K and nothing is printed
\* about missing stroke numbers.
NoStrokeMissing ==
    /\ call.stroke_numbers = 1..Cardinality(call.stroke_numbers)
    /\ \A k \in 1..Len(call.printed) : call.printed[k] # "Warning: Missing stroke numbers"

\* No path of the source file carries a class stroke-n of its own.
NoSourceClass ==
    \A k \in 1..Len(call.svg.paths) :
        "cls" \notin DOMAIN call.svg.paths[k] \/ call.svg.paths[k].cls = 0

\* C18: whenever process_svg returns for an SVG with a stroke group, every
\* path of the group carries a class stroke-n, the numbers do not decrease in
\* path order, start at 1 and grow by at most 1 from one path to the next;
\* and when no path of the source file carries a stroke class of its own,
\* the stroke numbers found by generate_stroke_step_pngs are exactly 1..K and
\* the warning about missing stroke numbers is not printed.
C18_StrokeNumbersCountUp ==
    (call.fn \in {"process_svg", "generate_stroke_step_pngs"}
         /\ call.svg.group /\ ~call.raises)
    => /\ ClassesCountUp(call.soup, Len(call.svg.paths))
       /\ (call.fn = "generate_stroke_step_pngs" /\ NoSourceClass) => NoStrokeMissing

\* C18 as stated: the same for every SVG with a stroke group, whatever the
\* classes of the paths in the source file.
C18_StrokeNumbersCountUpAsStated ==
    (call.fn \in {"process_svg", "generate_stroke_step_pngs"}
         /\ call.svg.group /\ ~call.raises)
    => /\ ClassesCountUp(call.soup, Len(call.svg.paths))
       /\ call.fn = "generate_stroke_step_pngs" => NoStrokeMissing

\* Three paths in two strokes, none with a class in the source file: the
\* second path joins the first stroke, the third starts the second.
C18_Witness ==
    /\ call.fn = "generate_stroke_step_pngs"
    /\ call.svg.group /\ ~call.raises
    /\ NoSourceClass
    /\ Len(call.svg.paths) = 3
    /\ call.stroke_numbers = {1, 2}
    /\ ClassOfPath(call.soup, 2) = 1
    /\ call.printed = <<>>

(***************************************************************************)
(* Properties of the runs of generate_stroke_step_pngs in the script.      *)
(***************************************************************************)
\* The rasterizer was run on the current step of the current character and
\* left no image, and the run of the function or of the program has ended.
RasterizerFailed ==
    /\ pc \in {"raised", "exited"}
    /\ step \in rasterized
    /\ png[hanzi_char][step].st # "image"

\* C19: if the rasterizer fails on step k of a character,
\* generate_stroke_step_pngs raises at once; from then on no step after k of
\* that character and no later character is rendered, and no document is
\* written and compiled: the program ends with status 1, nothing typeset.
C19_RasterizerFailureStopsTheRun ==
    [][/\ (/\ pc = "loop"
           /\ step \in rasterized'
           /\ png'[hanzi_char][step].st # "image") => pc' = "raised"
       /\ RasterizerFailed =>
              /\ typeset = <<>> /\ typeset' = <<>>
              /\ png' = png
              /\ rasterized' = rasterized
              /\ ci' = ci /\ step' = step
              /\ pc' = "exited" /\ exit_status' = 1]_vars

\* The rasterizer failed on step 2 of the first character, after step 1 was
\* rendered: the script has ended with status 1, no step of the second
\* character exists and nothing was typeset.
C19_Witness ==
    /\ prog = "script"
    /\ pc = "exited"
    /\ exit_status = 1
    /\ ci = 1
    /\ step = 2
    /\ rasterized = {1, 2}
    /\ png[Bing][1].st = "image"
    /\ png[Bing][2].st # "image"
    /\ \A i \in 1..MaxPaths : png[Xiang][i].st = "absent"
    /\ typeset = <<>>

\* C20: in a run of generate_stroke_step_pngs that follows a run aborted at
\* a step of the same character, the steps that are rendered are exactly
\* those whose PNG is missing or empty when the loop comes to them, no PNG
\* that exists with a size is rendered again or changed, and when the run
\* returns (the rasterizer succeeded) every step 1..K has a non-empty PNG.
C20_RunAfterAbortRendersTheRest ==
    [][(impl = "utils" /\ prev = "raised") =>
          /\ (pc = "loop" /\ step <= max_stroke) =>
                 /\ step \in rasterized' <=> png[hanzi_char][step].st \in {"absent", "empty"}
                 /\ rasterized' \ rasterized \subseteq {step}
                 /\ \A i \in 1..MaxPaths :
                        (i # step \/ png[hanzi_char][i].st = "image")
                            => png'[hanzi_char][i] = png[hanzi_char][i]
          /\ pc' = "returned" =>
                 \A i \in 1..max_stroke' : png'[hanzi_char][i].st = "image"]_vars

\* A run after an aborted one has returned: it skipped a step that was
\* completed before and rendered the rest of the steps.
C20_Witness ==
    /\ impl = "utils"
    /\ prev = "raised"
    /\ pc = "returned"
    /\ max_stroke >= 2
    /\ rasterized # {}
    /\ 1 \notin rasterized
    /\ \A i \in 1..max_stroke : png[hanzi_char][i].st = "image"

(***************************************************************************)
(* Properties of generate_latex_stroke_sequence.                           *)
(***************************************************************************)
\* The steps whose image the markup references, in the order of the markup.
ReferencedSteps(steps) ==
    LET nodes == SelectSeq(steps, LAMBDA e : e.t = "node")
    IN  [k \in 1..Len(nodes) |-> nodes[k].i]

\* C21: when generate_latex_stroke_sequence(c) is called right after
\* generate_stroke_step_pngs produced K steps for c, its output references
\* the steps 1..K of c, each exactly once and in increasing order, and
\* references no image file that is absent from the output directory.
C21_OneImagePerGeneratedStep ==
    call.fn = "generate_latex_stroke_sequence"
    => /\ ReferencedSteps(call.steps) = [k \in 1..call.K |-> k]
       /\ \A k \in 1..Len(ReferencedSteps(call.steps)) :
              call.files[ReferencedSteps(call.steps)[k]].st # "absent"

\* T: the step images that are counted, the steps 1, 2, ... of which a file
\* exists, up to the first step without one and to step 29.
CountedImages(files) ==
    LET ns == {n \in 0..Len(files) :
                  n <= 29 /\ \A j \in 1..n : files[j].st # "absent"}
    IN  CHOOSE n \in ns : \A m \in ns : m <= n

\* The positions of the markup at which an element of kind t stands, and the
\* k-th of a set of positions.
PositionsOf(steps, t) == {k \in 1..Len(steps) : steps[k].t = t}

NthOf(S, k) == CHOOSE x \in S : Cardinality({y \in S : y <= x}) = k

\* C22: generate_latex_stroke_sequence lays the T counted step images out 8
\* per line: it emits ceil(T/8) picture blocks, every block but the last
\* holds exactly 8 images and the last holds between 1 and 8, a line
\* separator stands between consecutive blocks and nowhere else, one vertical
\* space closes the sequence, and for T = 0 no picture block is emitted.
C22_EightImagesPerLine ==
    call.fn = "generate_latex_stroke_sequence"
    => LET out == call.steps
           T == CountedImages(call.files)
           begins == PositionsOf(out, "begin")
           ends == PositionsOf(out, "end")
           nodes == PositionsOf(out, "node")
           seps == PositionsOf(out, "space")
           nb == Cardinality(begins)
           held(b) == {k \in nodes : NthOf(begins, b) < k /\ k < NthOf(ends, b)}
       IN  /\ nb * 8 >= T /\ (nb - 1) * 8 < T
           /\ Cardinality(ends) = nb
           /\ Cardinality(nodes) = T
           /\ \A b \in 1..nb :
                  /\ NthOf(begins, b) < NthOf(ends, b)
                  /\ b < nb => NthOf(ends, b) < NthOf(begins, b + 1)
                  /\ NthOf(ends, b) - NthOf(begins, b) - 1 = Cardinality(held(b))
                  /\ b < nb => Cardinality(held(b)) = 8
                  /\ b = nb => Cardinality(held(b)) \in 1..8
           /\ \A k \in nodes : \E b \in 1..nb : k \in held(b)
           /\ seps = {NthOf(ends, b) + 1 : b \in 1..(nb - 1)}
           /\ \A b \in 1..(nb - 1) : NthOf(begins, b + 1) = NthOf(ends, b) + 2
           /\ PositionsOf(out, "vspace") = {Len(out)}
           /\ T = 0 => out = <<[t |-> "vspace", i |-> 0]>>

\* Seventeen images were counted and laid out: two lines of eight and a line
\* of one.
C22_Witness ==
    /\ call.fn = "generate_latex_stroke_sequence"
    /\ CountedImages(call.files) = 17
    /\ Cardinality(PositionsOf(call.steps, "begin")) = 3
    /\ Cardinality(PositionsOf(call.steps, "space")) = 2
    /\ call.steps[Len(call.steps) - 2].t = "node"
    /\ call.steps[Len(call.steps) - 3].t = "begin"

(***************************************************************************)
(* Properties of get_hanzi_stroke_svgs.                                    *)
(***************************************************************************)
\* C23: for every word, get_hanzi_stroke_svgs returns exactly one file name
\* per character, in the order of the characters: decoding the i-th name as
\* chr(int(name.split('-')[0])), as the callers do, recovers the i-th
\* character of the word.
C23_NamesDecodeToTheCharacters ==
    call.fn = "get_hanzi_stroke_svgs"
    => /\ Len(call.result) = Len(call.word)
       /\ \A i \in 1..Len(call.result) : decode_name(call.result[i]) = call.word[i]

\* The names of a word of three characters, one of them twice and one the
\* hyphen: the first name is "20912-still.svg", the last "45-still.svg".
C23_Witness ==
    /\ call.fn = "get_hanzi_stroke_svgs"
    /\ call.word = <<20912, 20912, 45>>
    /\ call.result[1] = <<50, 48, 57, 49, 50, 45, 115, 116, 105, 108, 108, 46, 115, 118, 103>>
    /\ call.result[3] = <<52, 53, 45, 115, 116, 105, 108, 108, 46, 115, 118, 103>>
    /\ decode_name(call.result[3]) = 45

====
